---- MODULE Spec2Model ----
(***************************************************************************)
(* The log sequencer of src/log/sequencer.go (SequenceBatch and SignRoot)  *)
(* running against a transactional log storage, a compact Merkle tree, a   *)
(* signer and a time source.  The sequencer's control flow is translated   *)
(* from the source; the collaborators it only calls (merkle, storage,      *)
(* crypto, util) are modelled from their contracts.                        *)
(*                                                                         *)
(* The HTTP front end of the log (package ct), whose tests are             *)
(* src/unnamed/part_001, is modelled as one handler serving one request   *)
(* at a time against a backend that answers as the tests' mocks do.       *)
(*                                                                         *)
(* Hashes are symbolic: a hash is the flat prefix-notation term of what    *)
(* was hashed, so two hashes are equal exactly when their inputs are.      *)
(***************************************************************************)
EXTENDS Integers, Sequences, FiniteSets, TLC

\* ------------------------------------------------------------------ bounds
MaxLeaves == 3
MaxLimit == 2
MaxRev == 3
MaxClock == 1
MaxAppends == 6
MaxAgedLeaves == 1

\* the sequencer invocations that may run concurrently
Procs == {1, 2}

\* src/log/sequencer.go:29
maxTreeDepth == 64

VARIABLES
  queue,      \* storage: pending leaves, FIFO (leaf ids)
  queued,     \* storage: how many leaves were ever queued (ids 1..queued)
  sequenced,  \* storage: committed rows [leaf, seq] of sequenced leaves
  nodes,      \* storage: committed node rows [depth, index, rev, hash]
  sths,       \* storage: committed signed log roots
  clock,      \* the time source
  pc,         \* per invocation: where it is
  txn,        \* per invocation: its open storage transaction
  loc,        \* per invocation: the local variables of SequenceBatch/SignRoot
  ret,        \* per invocation: what the last call returned
  log         \* per invocation: the calls it made, in order, with outcome

storage == <<queue, queued, sequenced, nodes, sths>>
vars == <<queue, queued, sequenced, nodes, sths, clock, pc, txn, loc, ret, log>>

\* ------------------------------------------------------------- tree hasher
NoHash == <<>>

EmptyRoot == <<2>>

HashLeaf(d) == <<0, d>>

HashChildren(l, r) == <<1>> \o l \o r

\* the leaf hash of leaf id i, as the admission pipeline queued it
LeafHashOf(i) == HashLeaf(i)

\* --------------------------------------------------------- integer helpers
RECURSIVE Pow2(_)
Pow2(n) == IF n = 0 THEN 1 ELSE 2 * Pow2(n - 1)

Bit(n, l) == (n \div Pow2(l)) % 2

Shr(n, l) == n \div Pow2(l)

RECURSIVE NumLevels(_)
NumLevels(n) == IF n = 0 THEN 0 ELSE 1 + NumLevels(n \div 2)

Min(a, b) == IF a < b THEN a ELSE b

\* ------------------------------------------------------ compact Merkle tree
\* spine[l + 1] is the root of the complete subtree at level l, or NoHash
NewCompactMerkleTree == [size |-> 0, spine |-> <<>>]

SetLevel(spine, l, h) ==
  IF l + 1 <= Len(spine) THEN [spine EXCEPT ![l + 1] = h] ELSE Append(spine, h)

\* the carry of one append: combine up the spine while the bit of size is set
RECURSIVE Carry(_, _, _, _, _, _)
Carry(spine, size, seq, l, h, emitted) ==
  IF Bit(size, l) = 1
  THEN LET parent == HashChildren(spine[l + 1], h)
       IN Carry([spine EXCEPT ![l + 1] = NoHash], size, seq, l + 1, parent,
                Append(emitted, [depth |-> l + 1, index |-> Shr(seq, l + 1),
                                 hash |-> parent]))
  ELSE [spine |-> SetLevel(spine, l, h), emitted |-> emitted]

\* mutant: append returns the size after the append
AddLeafHashOneBased(mt, h) ==
  LET c == Carry(mt.spine, mt.size, mt.size, 0, h, <<>>)
  IN [seq |-> mt.size + 1,
      tree |-> [size |-> mt.size + 1, spine |-> c.spine],
      emitted |-> c.emitted]

\* append(leaf_hash, emit): the sequence number, the new tree, what was emitted
AddLeafHash(mt, h) ==
  LET c == Carry(mt.spine, mt.size, mt.size, 0, h, <<>>)
  IN [seq |-> mt.size,
      tree |-> [size |-> mt.size + 1, spine |-> c.spine],
      emitted |-> c.emitted]

\* fold the occupied spine levels from the lowest upward
RECURSIVE FoldSpine(_, _, _)
FoldSpine(spine, l, acc) ==
  IF l + 1 > Len(spine) THEN acc
  ELSE IF spine[l + 1] = NoHash THEN FoldSpine(spine, l + 1, acc)
  ELSE IF acc = NoHash THEN FoldSpine(spine, l + 1, spine[l + 1])
  ELSE FoldSpine(spine, l + 1, HashChildren(spine[l + 1], acc))

CurrentRoot(mt) ==
  IF mt.size = 0 THEN EmptyRoot ELSE FoldSpine(mt.spine, 0, NoHash)

TreeSize(mt) == mt.size

\* the RFC 6962 reference: MTH of a list of leaf hashes
RECURSIVE SplitPoint(_, _)
SplitPoint(n, k) == IF 2 * k < n THEN SplitPoint(n, 2 * k) ELSE k

RECURSIVE MTH(_)
MTH(d) ==
  IF Len(d) = 0 THEN EmptyRoot
  ELSE IF Len(d) = 1 THEN d[1]
  ELSE LET k == SplitPoint(Len(d), 1)
       IN HashChildren(MTH(SubSeq(d, 1, k)), MTH(SubSeq(d, k + 1, Len(d))))

\* ----------------------------------------------------------------- signer
\* the signature over the tree head of a log root (timestamp, size, root hash)
SignLogRoot(root) == <<3, root.ts, root.size>> \o root.hash

\* ---------------------------------------------------------------- storage
\* what latest_signed_log_root returns for a log with no root
ZeroRoot ==
  [logId |-> 0, size |-> 0, ts |-> 0, hash |-> NoHash, rev |-> 0, sig |-> NoHash]

LatestRev(S) ==
  IF S = {} THEN 0 ELSE CHOOSE r \in {s.rev : s \in S} : \A s \in S : s.rev <= r

LatestSignedLogRoot(S) ==
  IF S = {} THEN ZeroRoot ELSE CHOOSE s \in S : s.rev = LatestRev(S)

\* the write revision a transaction begun now is given
WriteRevision(S) == LatestRev(S) + 1

\* get_merkle_nodes(rev, {id}): the most recent row of the id at or before rev
GetMerkleNodes(N, rev, depth, index) ==
  LET rows == {n \in N : n.depth = depth /\ n.index = index /\ n.rev <= rev}
  IN {n \in rows : \A m \in rows : m.rev <= n.rev}

\* dequeue_leaves(limit): the first leaves of the pending queue, in order
DequeueLeaves(q, limit) ==
  [i \in 1..Min(limit, Len(q)) |-> [id |-> q[i], hash |-> LeafHashOf(q[i]), seq |-> -1]]

NoTx ==
  [open |-> FALSE, W |-> 0, deq |-> {}, leafWrites |-> {}, nodeWrites |-> {},
   sthWrites |-> {}]

\* rows another open transaction has written and not yet committed
OtherNodeWrites(p) == UNION {txn[q].nodeWrites : q \in Procs \ {p}}

OtherSthWrites(p) == UNION {txn[q].sthWrites : q \in Procs \ {p}}

SameNode(a, b) == a.depth = b.depth /\ a.index = b.index /\ a.rev = b.rev

\* set_merkle_nodes fails on a (node_id, revision) that is already stored
NodeCollision(ns) == \E a \in ns, b \in nodes : SameNode(a, b)

NodeLocked(p, ns) == \E a \in ns, b \in OtherNodeWrites(p) : SameNode(a, b)

\* store_signed_log_root fails if the tree_revision is already stored
RootCollision(root) == \E s \in sths : s.rev = root.rev

RootLocked(p, root) == \E s \in OtherSthWrites(p) : s.rev = root.rev

\* new_with_state(size, root_hash, fetch): one spine hash per set bit of size,
\* fetched[l] being what fetch(l, (size >> l) - 1) returned
NewCompactMerkleTreeWithState(size, fetched, expectedRoot) ==
  LET levels == {l \in 0..(NumLevels(size) - 1) : Bit(size, l) = 1}
      mt == [size |-> size,
             spine |-> [k \in 1..NumLevels(size) |->
                          IF Bit(size, k - 1) = 1 /\ fetched[k - 1].ok
                          THEN fetched[k - 1].hash ELSE NoHash]]
  IN IF \E l \in levels : ~fetched[l].ok THEN [err |-> TRUE, tree |-> NewCompactMerkleTree]
     ELSE IF CurrentRoot(mt) # expectedRoot THEN [err |-> TRUE, tree |-> NewCompactMerkleTree]
     ELSE [err |-> FALSE, tree |-> mt]

\* storage.NewNodeIDForTreeCoords(depth, index, maxTreeDepth) succeeds
NodeIDValid(depth, index) ==
  /\ depth >= 0 /\ depth < maxTreeDepth
  /\ index >= 0

\* --------------------------------------------- sequencer: pure helpers
\* the fetch callback of buildMerkleTreeFromStorageAtRoot for one spine level
FetchNode(root, N, l) ==
  LET index == Shr(root.size, l) - 1
      got == GetMerkleNodes(N, root.rev, l, index)
  IN IF ~NodeIDValid(l, index) THEN [ok |-> FALSE, hash |-> NoHash]
     ELSE IF Cardinality(got) # 1 THEN [ok |-> FALSE, hash |-> NoHash]
     ELSE [ok |-> TRUE, hash |-> (CHOOSE n \in got : TRUE).hash]

\* mutant: the error of NewCompactMerkleTreeWithState is dropped
BuildIgnoringError(root, N) ==
  [err |-> FALSE,
   tree |-> NewCompactMerkleTreeWithState(
              root.size,
              [l \in 0..(NumLevels(root.size) - 1) |->
                 IF Bit(root.size, l) = 1 THEN FetchNode(root, N, l)
                 ELSE [ok |-> TRUE, hash |-> NoHash]],
              root.hash).tree]

buildMerkleTreeFromStorageAtRoot(root, N) ==
  NewCompactMerkleTreeWithState(
    root.size,
    [l \in 0..(NumLevels(root.size) - 1) |->
       IF Bit(root.size, l) = 1 THEN FetchNode(root, N, l)
       ELSE [ok |-> TRUE, hash |-> NoHash]],
    root.hash)

\* mutant: the tree is never hydrated from storage
InitAlwaysEmpty(currentRoot, N) == [err |-> FALSE, tree |-> NewCompactMerkleTree]

initMerkleTreeFromStorage(currentRoot, N) ==
  IF currentRoot.size = 0
  THEN [err |-> FALSE, tree |-> NewCompactMerkleTree]
  ELSE buildMerkleTreeFromStorageAtRoot(currentRoot, N)

\* mutant: no node of the leaf level is put into the map
MapPutInteriorOnly(nodeMap, depth, index, hash) ==
  IF depth = 0 THEN nodeMap
  ELSE [id \in DOMAIN nodeMap \cup {<<depth, index>>} |->
          IF id = <<depth, index>> THEN hash ELSE nodeMap[id]]

\* nodeMap[nodeId.String()] = storage.Node{NodeID: nodeId, Hash: hash}
MapPut(nodeMap, depth, index, hash) ==
  [id \in DOMAIN nodeMap \cup {<<depth, index>>} |->
     IF id = <<depth, index>> THEN hash ELSE nodeMap[id]]

\* mutant: the callback keeps none of the updates it is handed
PutEmittedDropping(nodeMap, emitted, i) == nodeMap

\* the callback sequenceLeaves hands to AddLeafHash, over all it was called with:
\* an update whose node id cannot be built is dropped
RECURSIVE PutEmitted(_, _, _)
PutEmitted(nodeMap, emitted, i) ==
  IF i > Len(emitted) THEN nodeMap
  ELSE LET e == emitted[i]
       IN PutEmitted(IF NodeIDValid(e.depth, e.index)
                     THEN MapPut(nodeMap, e.depth, e.index, e.hash)
                     ELSE nodeMap,
                     emitted, i + 1)

\* the loop of sequenceLeaves from leaf i on
RECURSIVE SequenceFrom(_, _, _, _, _)
SequenceFrom(mt, leaves, i, nodeMap, sequenceNumbers) ==
  IF i > Len(leaves)
  THEN [err |-> FALSE, tree |-> mt, nodeMap |-> nodeMap,
        sequenceNumbers |-> sequenceNumbers]
  ELSE LET r == AddLeafHash(mt, leaves[i].hash)
           m == PutEmitted(nodeMap, r.emitted, 1)
       IN IF ~NodeIDValid(0, r.seq)
          THEN [err |-> TRUE, tree |-> r.tree, nodeMap |-> <<>>,
                sequenceNumbers |-> <<>>]
          ELSE SequenceFrom(r.tree, leaves, i + 1,
                            MapPut(m, 0, r.seq, leaves[i].hash),
                            Append(sequenceNumbers, r.seq))

Reverse(q) == [i \in 1..Len(q) |-> q[Len(q) + 1 - i]]

\* mutant: the last leaf of the batch is left out
SequenceAllButLast(mt, leaves) ==
  SequenceFrom(mt, SubSeq(leaves, 1, Len(leaves) - 1), 1, <<>>, <<>>)

\* mutant: the leaves are added to the tree last first
SequenceLastFirst(mt, leaves) == SequenceFrom(mt, Reverse(leaves), 1, <<>>, <<>>)

\* mutant: the leaves are added to a fresh tree, not to the one passed in
SequenceOnFreshTree(mt, leaves) ==
  SequenceFrom(NewCompactMerkleTree, leaves, 1, <<>>, <<>>)

sequenceLeaves(mt, leaves) == SequenceFrom(mt, leaves, 1, <<>>, <<>>)

\* mutant: the nodes are not stamped with a revision
BuildNodesUnstamped(nodeMap, newVersion) ==
  {[depth |-> id[1], index |-> id[2], hash |-> nodeMap[id], rev |-> 0] :
     id \in DOMAIN nodeMap}

\* mutant: the nodes are stamped with the revision before the write revision
BuildNodesAtOldRevision(nodeMap, newVersion) ==
  {[depth |-> id[1], index |-> id[2], hash |-> nodeMap[id], rev |-> newVersion - 1] :
     id \in DOMAIN nodeMap}

buildNodesFromNodeMap(nodeMap, newVersion) ==
  {[depth |-> id[1], index |-> id[2], hash |-> nodeMap[id], rev |-> newVersion] :
     id \in DOMAIN nodeMap}

\* mutant: the write revision is never compared with the current root's
RevisionCheckSkipped(newVersion, currentRoot) == FALSE

\* got, want := newVersion, currentRoot.TreeRevision+1; got != want
RevisionConflict(newVersion, currentRoot) == newVersion # currentRoot.rev + 1

\* mutant: every leaf of the batch is given the first sequence number
AssignFirstToAll(leaves, sequenceNumbers) ==
  [i \in 1..Len(leaves) |->
     IF Len(sequenceNumbers) > 0
     THEN [leaves[i] EXCEPT !.seq = sequenceNumbers[1]]
     ELSE leaves[i]]

\* for index := range sequenceNumbers { leaves[index].SequenceNumber = ... }
AssignSequenceNumbers(leaves, sequenceNumbers) ==
  [i \in 1..Len(leaves) |->
     IF i <= Len(sequenceNumbers)
     THEN [leaves[i] EXCEPT !.seq = sequenceNumbers[i]]
     ELSE leaves[i]]

\* mutant: the new root keeps the tree size of the root it was built from
StaleSizeLogRoot(mt, currentRoot, newVersion, now) ==
  [hash |-> CurrentRoot(mt), ts |-> now, size |-> currentRoot.size,
   logId |-> currentRoot.logId, rev |-> newVersion, sig |-> NoHash]

\* the log root SequenceBatch builds for signing
BatchLogRoot(mt, currentRoot, newVersion, now) ==
  [hash |-> CurrentRoot(mt), ts |-> now, size |-> TreeSize(mt),
   logId |-> currentRoot.logId, rev |-> newVersion, sig |-> NoHash]

\* mutant: SignRoot takes size and root from a fresh tree, not the hydrated one
ResignedFromEmptyTree(mt, currentRoot, now) ==
  [hash |-> CurrentRoot(NewCompactMerkleTree), ts |-> now,
   size |-> TreeSize(NewCompactMerkleTree), logId |-> currentRoot.logId,
   rev |-> currentRoot.rev + 1, sig |-> NoHash]

\* mutant: SignRoot steps the revision by two
ResignedSkippingRevision(mt, currentRoot, now) ==
  [hash |-> CurrentRoot(mt), ts |-> now, size |-> TreeSize(mt),
   logId |-> currentRoot.logId, rev |-> currentRoot.rev + 2, sig |-> NoHash]

\* the log root SignRoot builds for signing
ResignedLogRoot(mt, currentRoot, now) ==
  [hash |-> CurrentRoot(mt), ts |-> now, size |-> TreeSize(mt),
   logId |-> currentRoot.logId, rev |-> currentRoot.rev + 1, sig |-> NoHash]

\* newLogRoot.Signature = &signature
WithSignature(root) == [root EXCEPT !.sig = SignLogRoot(root)]

\* ------------------------------------------------------------ initial state
LocInit ==
  [entry |-> "none", leaves |-> <<>>, currentRoot |-> ZeroRoot,
   merkleTree |-> NewCompactMerkleTree, newVersion |-> 0, nodeMap |-> <<>>,
   newLogRoot |-> ZeroRoot, expiryFunc |-> "none", batchRoot |-> ZeroRoot]

NoRet == [count |-> 0, err |-> "running"]

\* a log provisioned with a first root that names the log
ProvisionedRoot ==
  WithSignature([logId |-> 1, size |-> 0, ts |-> 0, hash |-> EmptyRoot, rev |-> 1,
                 sig |-> NoHash])

Init ==
  /\ queue = <<>>
  /\ queued = 0
  /\ sequenced = {}
  /\ nodes = {}
  /\ sths \in {{}, {ProvisionedRoot}}
  /\ clock = 0
  /\ pc = [p \in Procs |-> "idle"]
  /\ txn = [p \in Procs |-> NoTx]
  /\ loc = [p \in Procs |-> LocInit]
  /\ ret = [p \in Procs |-> [count |-> 0, err |-> "nil"]]
  /\ log = [p \in Procs |-> <<>>]

\* ------------------------------------------------- storage: transaction end
\* commit(): the transaction's writes become the stored state, all at once
CommitTx(p) ==
  /\ queue' = SelectSeq(queue, LAMBDA x : x \notin txn[p].deq)
  /\ sequenced' = sequenced \cup txn[p].leafWrites
  /\ nodes' = nodes \cup txn[p].nodeWrites
  /\ sths' = sths \cup txn[p].sthWrites
  /\ UNCHANGED queued

\* rollback(): the transaction's writes and its dequeue are discarded
RollbackTx(p) ==
  /\ txn' = [txn EXCEPT ![p] = NoTx]
  /\ UNCHANGED storage

\* begin(): a transaction with the write revision of this moment
OpenTx == [NoTx EXCEPT !.open = TRUE, !.W = WriteRevision(sths)]

\* ------------------------------------------------ sequencer: error returns
\* mutant: the error path commits the transaction instead of rolling it back
AbortCommitting(p, done, op) ==
  /\ CommitTx(p)
  /\ txn' = [txn EXCEPT ![p] = NoTx]
  /\ log' = [log EXCEPT ![p] = @ \o done \o <<<<op, FALSE>>, <<"Commit", TRUE>>>>]
  /\ ret' = [ret EXCEPT ![p] = [count |-> 0, err |-> op]]
  /\ pc' = [pc EXCEPT ![p] = "done"]
  /\ loc' = [loc EXCEPT ![p] = LocInit]
  /\ UNCHANGED clock

\* mutant: the error path returns without releasing the transaction
AbortNoRollback(p, done, op) ==
  /\ log' = [log EXCEPT ![p] = @ \o done \o <<<<op, FALSE>>>>]
  /\ ret' = [ret EXCEPT ![p] = [count |-> 0, err |-> op]]
  /\ pc' = [pc EXCEPT ![p] = "done"]
  /\ loc' = [loc EXCEPT ![p] = LocInit]
  /\ UNCHANGED <<storage, txn, clock>>

\* tx.Rollback(); return 0, err   (after the calls in done succeeded and op failed)
Abort(p, done, op) ==
  /\ RollbackTx(p)
  /\ log' = [log EXCEPT ![p] = @ \o done \o <<<<op, FALSE>>, <<"Rollback", TRUE>>>>]
  /\ ret' = [ret EXCEPT ![p] = [count |-> 0, err |-> op]]
  /\ pc' = [pc EXCEPT ![p] = "done"]
  /\ loc' = [loc EXCEPT ![p] = LocInit]
  /\ UNCHANGED clock

\* the entry of an invocation, its tx := s.logStorage.Begin() included
Enter(p, entry, expiryFunc, next, ok) ==
  /\ loc' = [loc EXCEPT ![p] =
               IF ok THEN [LocInit EXCEPT !.entry = entry, !.expiryFunc = expiryFunc]
               ELSE LocInit]
  /\ log' = [log EXCEPT ![p] = <<<<"Begin", ok>>>>]
  /\ txn' = [txn EXCEPT ![p] = IF ok THEN OpenTx ELSE NoTx]
  /\ pc' = [pc EXCEPT ![p] = IF ok THEN next ELSE "done"]
  /\ ret' = [ret EXCEPT ![p] = IF ok THEN NoRet ELSE [count |-> 0, err |-> "Begin"]]
  /\ UNCHANGED <<storage, clock>>

\* ------------------------------------------------------------ SequenceBatch
ExpiryFuncs == {"never", "always", "aged"}

\* expiryFunc(root), for the time source it was built over
Expired(f, root, now) == f = "always" \/ (f = "aged" /\ root.ts < now)

\* SequenceBatch(limit, expiryFunc) is called: tx, err := s.logStorage.Begin()
SB_Begin(p) ==
  /\ pc[p] \in {"idle", "done"}
  /\ LatestRev(sths) < MaxRev
  /\ \E ok \in BOOLEAN, expiryFunc \in ExpiryFuncs :
       Enter(p, "SequenceBatch", expiryFunc, "sbDequeue", ok)

\* mutant: the batch is dequeued with limit 0 whatever limit the caller passed
SB_DequeueIgnoringLimit(p) ==
  /\ pc[p] = "sbDequeue"
  /\ \E limit \in 0..MaxLimit, ok \in BOOLEAN :
       IF ok
       THEN LET leaves == DequeueLeaves(queue, 0)
            IN /\ loc' = [loc EXCEPT ![p].leaves = leaves]
               /\ txn' = [txn EXCEPT ![p].deq = {leaves[i].id : i \in 1..Len(leaves)}]
               /\ log' = [log EXCEPT ![p] = Append(@, <<"DequeueLeaves", TRUE>>)]
               /\ pc' = [pc EXCEPT ![p] = "sbLatestRoot"]
               /\ UNCHANGED <<storage, clock, ret>>
       ELSE Abort(p, <<>>, "DequeueLeaves")

\* mutant: the batch is read from the queue without being taken out of it
SB_DequeuePeeking(p) ==
  /\ pc[p] = "sbDequeue"
  /\ \E limit \in 0..MaxLimit, ok \in BOOLEAN :
       IF ok
       THEN /\ loc' = [loc EXCEPT ![p].leaves = DequeueLeaves(queue, limit)]
            /\ log' = [log EXCEPT ![p] = Append(@, <<"DequeueLeaves", TRUE>>)]
            /\ pc' = [pc EXCEPT ![p] = "sbLatestRoot"]
            /\ UNCHANGED <<storage, clock, ret, txn>>
       ELSE Abort(p, <<>>, "DequeueLeaves")

\* leaves, err := tx.DequeueLeaves(limit)
SB_Dequeue(p) ==
  /\ pc[p] = "sbDequeue"
  /\ \E limit \in 0..MaxLimit, ok \in BOOLEAN :
       IF ok
       THEN LET leaves == DequeueLeaves(queue, limit)
            IN /\ loc' = [loc EXCEPT ![p].leaves = leaves]
               /\ txn' = [txn EXCEPT ![p].deq = {leaves[i].id : i \in 1..Len(leaves)}]
               /\ log' = [log EXCEPT ![p] = Append(@, <<"DequeueLeaves", TRUE>>)]
               /\ pc' = [pc EXCEPT ![p] = "sbLatestRoot"]
               /\ UNCHANGED <<storage, clock, ret>>
       ELSE Abort(p, <<>>, "DequeueLeaves")

\* currentRoot, err := tx.LatestSignedLogRoot()
SB_LatestRoot(p) ==
  /\ pc[p] = "sbLatestRoot"
  /\ \E ok \in BOOLEAN :
       IF ok
       THEN /\ loc' = [loc EXCEPT ![p].currentRoot = LatestSignedLogRoot(sths)]
            /\ log' = [log EXCEPT ![p] = Append(@, <<"LatestSignedLogRoot", TRUE>>)]
            /\ pc' = [pc EXCEPT ![p] =
                        IF Len(loc[p].leaves) = 0 THEN "sbEmpty" ELSE "sbHydrate"]
            /\ UNCHANGED <<storage, clock, ret, txn>>
       ELSE Abort(p, <<>>, "LatestSignedLogRoot")

\* mutant: the empty batch signs a new root whether the current one expired or not
SB_EmptyAlwaysSigning(p) ==
  /\ pc[p] = "sbEmpty"
  /\ \E ok \in BOOLEAN :
       /\ IF ok THEN CommitTx(p) ELSE UNCHANGED storage
       /\ txn' = [txn EXCEPT ![p] = NoTx]
       /\ log' = [log EXCEPT ![p] = Append(@, <<"Commit", ok>>)]
       /\ pc' = [pc EXCEPT ![p] = "srBegin"]
       /\ loc' = [loc EXCEPT ![p].batchRoot = loc[p].currentRoot]
       /\ UNCHANGED <<ret, clock>>

\* len(leaves) == 0: tx.Commit(), its error not looked at; then expiryFunc(currentRoot)
\* (SignRoot, when called, has a currentRoot of its own: the one of SequenceBatch
\* is kept as batchRoot)
SB_Empty(p) ==
  /\ pc[p] = "sbEmpty"
  /\ \E ok \in BOOLEAN :
       /\ IF ok THEN CommitTx(p) ELSE UNCHANGED storage
       /\ txn' = [txn EXCEPT ![p] = NoTx]
       /\ log' = [log EXCEPT ![p] = Append(@, <<"Commit", ok>>)]
       /\ IF Expired(loc[p].expiryFunc, loc[p].currentRoot, clock)
          THEN /\ pc' = [pc EXCEPT ![p] = "srBegin"]
               /\ loc' = [loc EXCEPT ![p].batchRoot = loc[p].currentRoot]
               /\ UNCHANGED ret
          ELSE /\ pc' = [pc EXCEPT ![p] = "done"]
               /\ loc' = [loc EXCEPT ![p] = LocInit]
               /\ ret' = [ret EXCEPT ![p] = [count |-> 0, err |-> "nil"]]
       /\ UNCHANGED clock

\* what the hydration adds to the call log: no node is read for an empty tree
HydrateLog(root, ok) ==
  IF root.size = 0 THEN <<>> ELSE <<<<"GetMerkleNodes", ok>>>>

\* initMerkleTreeFromStorage, the revision check, sequenceLeaves, and the
\* sequence numbers written into the leaves
SB_Hydrate(p) ==
  /\ pc[p] = "sbHydrate"
  /\ \E ok \in BOOLEAN :
       LET cur == loc[p].currentRoot
           h == initMerkleTreeFromStorage(cur, nodes)
           newVersion == txn[p].W
           s == sequenceLeaves(h.tree, loc[p].leaves)
       IN IF ~ok /\ cur.size > 0
          THEN Abort(p, <<>>, "GetMerkleNodes")
          ELSE IF h.err
          THEN Abort(p, HydrateLog(cur, TRUE), "NewCompactMerkleTreeWithState")
          ELSE IF RevisionConflict(newVersion, cur)
          THEN Abort(p, HydrateLog(cur, TRUE), "RevisionCheck")
          ELSE IF s.err
          THEN Abort(p, HydrateLog(cur, TRUE), "sequenceLeaves")
          ELSE /\ loc' = [loc EXCEPT
                            ![p].merkleTree = s.tree,
                            ![p].newVersion = newVersion,
                            ![p].nodeMap = s.nodeMap,
                            ![p].leaves =
                              AssignSequenceNumbers(loc[p].leaves, s.sequenceNumbers)]
               /\ log' = [log EXCEPT ![p] = @ \o HydrateLog(cur, TRUE)]
               /\ pc' = [pc EXCEPT ![p] =
                           IF Len(s.sequenceNumbers) # Len(loc[p].leaves)
                           THEN "panic" ELSE "sbWrite"]
               /\ UNCHANGED <<storage, clock, ret, txn>>

\* mutant: only the first leaf of the batch is written back
LeafRowsFirstOnly(leaves) == {[leaf |-> leaves[1].id, seq |-> leaves[1].seq]}

\* the rows tx.UpdateSequencedLeaves(leaves) writes
LeafRows(leaves) == {[leaf |-> leaves[i].id, seq |-> leaves[i].seq] : i \in 1..Len(leaves)}

\* mutant: the calls are made last first
CalledLastFirst(ops) == [i \in 1..Len(ops) |-> <<ops[Len(ops) + 1 - i], TRUE>>]

\* the calls ops were made in this order and succeeded
Called(ops) == [i \in 1..Len(ops) |-> <<ops[i], TRUE>>]

\* the writes of SequenceBatch, up to the first that fails: UpdateSequencedLeaves,
\* buildNodesFromNodeMap and SetMerkleNodes, the new root, signRoot, StoreSignedLogRoot
SB_Write(p) ==
  /\ pc[p] = "sbWrite"
  /\ LET targetNodes == buildNodesFromNodeMap(loc[p].nodeMap, loc[p].newVersion)
         newLogRoot == BatchLogRoot(loc[p].merkleTree, loc[p].currentRoot,
                                    loc[p].newVersion, clock)
         nodesStored == ~NodeCollision(targetNodes) /\ ~NodeLocked(p, targetNodes)
         rootStored == ~RootCollision(newLogRoot) /\ ~RootLocked(p, newLogRoot)
     IN \E r \in {"UpdateSequencedLeaves", "SetMerkleNodes", "Sign",
                  "StoreSignedLogRoot", "ok"} :
          CASE r = "UpdateSequencedLeaves" -> Abort(p, <<>>, r)
            [] r = "SetMerkleNodes" -> Abort(p, Called(<<"UpdateSequencedLeaves">>), r)
            [] r = "Sign" ->
                 /\ nodesStored
                 /\ Abort(p, Called(<<"UpdateSequencedLeaves", "SetMerkleNodes">>), r)
            [] r = "StoreSignedLogRoot" ->
                 /\ nodesStored
                 /\ Abort(p, Called(<<"UpdateSequencedLeaves", "SetMerkleNodes",
                                      "Sign">>), r)
            [] r = "ok" ->
                 /\ nodesStored
                 /\ rootStored
                 /\ txn' = [txn EXCEPT
                              ![p].leafWrites = LeafRows(loc[p].leaves),
                              ![p].nodeWrites = targetNodes,
                              ![p].sthWrites = {WithSignature(newLogRoot)}]
                 /\ loc' = [loc EXCEPT ![p].newLogRoot = WithSignature(newLogRoot)]
                 /\ log' = [log EXCEPT ![p] =
                              @ \o Called(<<"UpdateSequencedLeaves", "SetMerkleNodes",
                                            "Sign", "StoreSignedLogRoot">>)]
                 /\ pc' = [pc EXCEPT ![p] = "sbCommit"]
                 /\ UNCHANGED <<storage, clock, ret>>

\* mutant: a failed Commit is followed by a Rollback of the same transaction
CommitThenRollback(p, count) ==
  \E ok \in BOOLEAN :
    /\ IF ok THEN CommitTx(p) ELSE UNCHANGED storage
    /\ txn' = [txn EXCEPT ![p] = NoTx]
    /\ log' = [log EXCEPT ![p] =
                 IF ok THEN Append(@, <<"Commit", TRUE>>)
                 ELSE @ \o <<<<"Commit", FALSE>>, <<"Rollback", TRUE>>>>]
    /\ ret' = [ret EXCEPT ![p] =
                 IF ok THEN [count |-> count, err |-> "nil"]
                 ELSE [count |-> 0, err |-> "Commit"]]
    /\ pc' = [pc EXCEPT ![p] = "done"]
    /\ loc' = [loc EXCEPT ![p] = LocInit]
    /\ UNCHANGED clock

\* the final tx.Commit() of an invocation, returning count on success
CommitAndReturn(p, count) ==
  \E ok \in BOOLEAN :
    /\ IF ok THEN CommitTx(p) ELSE UNCHANGED storage
    /\ txn' = [txn EXCEPT ![p] = NoTx]
    /\ log' = [log EXCEPT ![p] = Append(@, <<"Commit", ok>>)]
    /\ ret' = [ret EXCEPT ![p] =
                 IF ok THEN [count |-> count, err |-> "nil"]
                 ELSE [count |-> 0, err |-> "Commit"]]
    /\ pc' = [pc EXCEPT ![p] = "done"]
    /\ loc' = [loc EXCEPT ![p] = LocInit]
    /\ UNCHANGED clock

\* if err := tx.Commit(); err != nil { return 0, err }; return len(leaves), nil
SB_Commit(p) ==
  /\ pc[p] = "sbCommit"
  /\ CommitAndReturn(p, Len(loc[p].leaves))

\* ----------------------------------------------------------------- SignRoot
\* SignRoot is called, by a caller or by SequenceBatch: s.logStorage.Begin()
SR_Begin(p) ==
  \/ /\ pc[p] \in {"idle", "done"}
     /\ LatestRev(sths) < MaxRev
     /\ \E ok \in BOOLEAN : Enter(p, "SignRoot", "none", "srLatestRoot", ok)
  \/ /\ pc[p] = "srBegin"
     /\ \E ok \in BOOLEAN :
          /\ log' = [log EXCEPT ![p] = Append(@, <<"Begin", ok>>)]
          /\ txn' = [txn EXCEPT ![p] = IF ok THEN OpenTx ELSE NoTx]
          /\ pc' = [pc EXCEPT ![p] = IF ok THEN "srLatestRoot" ELSE "done"]
          /\ ret' = [ret EXCEPT ![p] =
                       IF ok THEN NoRet ELSE [count |-> 0, err |-> "Begin"]]
          /\ loc' = [loc EXCEPT ![p] = IF ok THEN @ ELSE LocInit]
          /\ UNCHANGED <<storage, clock>>

SR_LatestRoot(p) ==
  /\ pc[p] = "srLatestRoot"
  /\ \E ok \in BOOLEAN :
       IF ok
       THEN /\ loc' = [loc EXCEPT ![p].currentRoot = LatestSignedLogRoot(sths)]
            /\ log' = [log EXCEPT ![p] = Append(@, <<"LatestSignedLogRoot", TRUE>>)]
            /\ pc' = [pc EXCEPT ![p] = "srHydrate"]
            /\ UNCHANGED <<storage, clock, ret, txn>>
       ELSE Abort(p, <<>>, "LatestSignedLogRoot")

SR_Hydrate(p) ==
  /\ pc[p] = "srHydrate"
  /\ \E ok \in BOOLEAN :
       LET cur == loc[p].currentRoot
           h == initMerkleTreeFromStorage(cur, nodes)
       IN IF ~ok /\ cur.size > 0
          THEN Abort(p, <<>>, "GetMerkleNodes")
          ELSE IF h.err
          THEN Abort(p, HydrateLog(cur, TRUE), "NewCompactMerkleTreeWithState")
          ELSE /\ loc' = [loc EXCEPT ![p].merkleTree = h.tree]
               /\ log' = [log EXCEPT ![p] = @ \o HydrateLog(cur, TRUE)]
               /\ pc' = [pc EXCEPT ![p] = "srSignStore"]
               /\ UNCHANGED <<storage, clock, ret, txn>>

\* the new root of SignRoot, signRoot, StoreSignedLogRoot
SR_SignStore(p) ==
  /\ pc[p] = "srSignStore"
  /\ LET newLogRoot == ResignedLogRoot(loc[p].merkleTree, loc[p].currentRoot, clock)
     IN \E r \in {"Sign", "StoreSignedLogRoot", "ok"} :
          CASE r = "Sign" -> Abort(p, <<>>, r)
            [] r = "StoreSignedLogRoot" -> Abort(p, Called(<<"Sign">>), r)
            [] r = "ok" ->
                 /\ ~RootCollision(newLogRoot)
                 /\ ~RootLocked(p, newLogRoot)
                 /\ txn' = [txn EXCEPT ![p].sthWrites = {WithSignature(newLogRoot)}]
                 /\ loc' = [loc EXCEPT ![p].newLogRoot = WithSignature(newLogRoot)]
                 /\ log' = [log EXCEPT ![p] =
                              @ \o Called(<<"Sign", "StoreSignedLogRoot">>)]
                 /\ pc' = [pc EXCEPT ![p] = "srCommit"]
                 /\ UNCHANGED <<storage, clock, ret>>

\* return tx.Commit()
SR_Commit(p) ==
  /\ pc[p] = "srCommit"
  /\ CommitAndReturn(p, 0)

\* -------------------------------------------------------------- environment
\* the admission pipeline queues a leaf
QueueLeaf ==
  /\ queued < MaxLeaves
  /\ queued' = queued + 1
  /\ queue' = Append(queue, queued + 1)
  /\ UNCHANGED <<sequenced, nodes, sths, clock, pc, txn, loc, ret, log>>

\* time passes
Tick ==
  /\ clock < MaxClock
  /\ clock' = clock + 1
  /\ UNCHANGED <<storage, pc, txn, loc, ret, log>>

Invocation(p) ==
  \/ SB_Begin(p)
  \/ SB_Dequeue(p)
  \/ SB_LatestRoot(p)
  \/ SB_Empty(p)
  \/ SB_Hydrate(p)
  \/ SB_Write(p)
  \/ SB_Commit(p)
  \/ SR_Begin(p)
  \/ SR_LatestRoot(p)
  \/ SR_Hydrate(p)
  \/ SR_SignStore(p)
  \/ SR_Commit(p)

\* one sequencer, invoked again and again
Next ==
  \/ QueueLeaf
  \/ Tick
  \/ Invocation(1)

Spec == Init /\ [][Next]_vars

\* sequencer invocations running concurrently on the same log, no lock around them
InitConc == Init /\ sths = {}

NextConc ==
  \/ QueueLeaf
  \/ \E p \in Procs : Invocation(p)

SpecConc == InitConc /\ [][NextConc]_vars

\* a SequenceBatch of sequencer 1 has failed and sequencer 2 re-runs SequenceBatch
\* on the same storage, no call of the re-run failing
FailedBatch(p) ==
  /\ pc[p] = "done"
  /\ ret[p].err # "nil"
  /\ Len(log[p]) >= 2
  /\ log[p][2][1] = "DequeueLeaves"

FailureFree(calls) == \A i \in 1..Len(calls) : calls[i][2] = TRUE

NextRerun ==
  \/ QueueLeaf
  \/ Tick
  \/ /\ pc[2] = "idle"
     /\ Invocation(1)
  \/ /\ FailedBatch(1)
     /\ Invocation(2)
     /\ FailureFree(log'[2])
     /\ loc'[2].entry # "SignRoot"

SpecRerun == Init /\ [][NextRerun]_vars

\* sequencer invocations running concurrently while time passes, on a log that
\* is handed few leaves
NextAged ==
  \/ /\ queued < MaxAgedLeaves
     /\ QueueLeaf
  \/ Tick
  \/ \E p \in Procs : Invocation(p)

SpecAged == Init /\ [][NextAged]_vars

\* one sequencer driven by its timer for ever: SequenceBatch is invoked again and
\* again, with a limit of at least 1 again and again, and once the clock has
\* reached MaxClock no storage or signer call fails any more. The revisions up to
\* MaxRev are shared out so that each leaf handed to the log has one left for
\* its batch: a leaf is queued, and an invocation that may re-sign the root is
\* started, only while one is to spare.
StepCalls ==
  IF pc[1] \in {"idle", "done"} THEN log'[1]
  ELSE SubSeq(log'[1], Len(log[1]) + 1, Len(log'[1]))

MayResign ==
  /\ pc[1] \notin {"idle", "done"}
  /\ loc[1].entry = "SignRoot" \/ loc[1].expiryFunc # "never"

RevisionsSuffice ==
  LatestRev(sths) + Len(queue) + (IF MayResign THEN 1 ELSE 0) <= MaxRev

LiveRule ==
  /\ clock = MaxClock => FailureFree(StepCalls)
  /\ RevisionsSuffice'

NextLive ==
  \/ /\ QueueLeaf
     /\ LiveRule
  \/ Tick
  \/ /\ Invocation(1)
     /\ LiveRule

\* SequenceBatch is invoked
LiveBegin ==
  /\ SB_Begin(1)
  /\ LiveRule

\* the limit that SequenceBatch was given is at least 1
LiveDequeue ==
  /\ SB_Dequeue(1)
  /\ pc'[1] = "sbLatestRoot"
  /\ \E limit \in 1..MaxLimit : loc'[1].leaves = DequeueLeaves(queue, limit)
  /\ LiveRule

\* an invocation that was started runs on to its return
LiveStep ==
  /\ pc[1] \notin {"idle", "done"}
  /\ Invocation(1)
  /\ LiveRule

SpecLive ==
  /\ Init
  /\ [][NextLive]_vars
  /\ WF_vars(Tick)
  /\ WF_vars(LiveStep)
  /\ SF_vars(LiveBegin)
  /\ SF_vars(LiveDequeue)

\* a compact tree on its own: leaf hashes appended to a tree that starts empty,
\* the tree kept in loc[1].merkleTree and the last returned number in ret[1].count
TreeAppend ==
  /\ TreeSize(loc[1].merkleTree) < MaxAppends
  /\ \E d \in 1..2 :
       LET r == AddLeafHash(loc[1].merkleTree, HashLeaf(d))
       IN /\ loc' = [loc EXCEPT ![1].merkleTree = r.tree]
          /\ ret' = [ret EXCEPT ![1].count = r.seq]
  /\ UNCHANGED <<storage, clock, pc, txn, log>>

SpecTree == Init /\ [][TreeAppend]_vars

\* a hash no tree hasher produces
BadHash == <<9>>

\* the stored node rows are damaged: a row is lost, a row's hash is changed, or a
\* second row turns up for an id and revision
Corrupt ==
  /\ \E n \in nodes :
       /\ n.hash # BadHash
       /\ nodes' \in {nodes \ {n},
                      (nodes \ {n}) \cup {[n EXCEPT !.hash = BadHash]},
                      nodes \cup {[n EXCEPT !.hash = BadHash]}}
  /\ UNCHANGED <<queue, queued, sequenced, sths, clock, pc, txn, loc, ret, log>>

NextCorrupt ==
  \/ Next
  \/ Corrupt

\* one sequencer over a storage whose node rows can get damaged
SpecCorrupt == Init /\ [][NextCorrupt]_vars

\* ===================================================== CT front end (package ct)
\* The HTTP handlers of the CT personality, as the tests of package ct drive
\* them: one request at a time against a backend log client that answers
\* whatever the test arranges.  A request uses the state of invocation 1:
\* loc[1] is the request and what the handler read at arrival, log[1] the
\* backend RPCs it issued, ret[1] the backend's answer and the HTTP response,
\* queue the backend's pending leaves.

\* CTRequestHandlers{0x42, roots, client, km, time.Millisecond * 500, fakeTimeSource}
ctLogID == 66

rpcDeadline == 500

\* how many submissions the backend takes before it stops accepting
MaxSubmitted == 1

\* the largest range get-entries accepts
MaxGetEntriesRange == 1000

\* crypto/sha256.Size
sha256Size == 32

\* sha256.Sum256 of a byte string, symbolic: the tagged term of what was hashed
Sum256(b) == <<4>> \o b

\* ---------------------------------------------------- certificates and chains
\* a certificate of the test data: who it is, who signed it, whether it carries
\* the pre-certificate poison extension, whether it parses as DER X.509 and
\* whether parsing reports non-fatal errors; raw stands for its bytes
LeafSignedByFakeIntermediateCert ==
  [name |-> "leaf", issuer |-> "fakeIntermediate", poison |-> FALSE, parses |-> TRUE,
   nonFatal |-> FALSE, raw |-> 11]

FakeIntermediateCert ==
  [name |-> "fakeIntermediate", issuer |-> "fakeCA", poison |-> FALSE, parses |-> TRUE,
   nonFatal |-> FALSE, raw |-> 12]

PrecertValid ==
  [name |-> "precert", issuer |-> "CA", poison |-> TRUE, parses |-> TRUE,
   nonFatal |-> TRUE, raw |-> 13]

TestCert ==
  [name |-> "testCert", issuer |-> "CA", poison |-> FALSE, parses |-> TRUE,
   nonFatal |-> FALSE, raw |-> 14]

\* "test": base64 of nothing that is a certificate
NotACert ==
  [name |-> "test", issuer |-> "none", poison |-> FALSE, parses |-> FALSE,
   nonFatal |-> FALSE, raw |-> 15]

\* the trusted root pools the tests configure
RootPools == {{"fakeCA"}, {"CA"}}

\* the key of an issuer, as the pre-certificate entry names it
IssuerKeyHash(issuer) == IF issuer = "CA" THEN 21 ELSE IF issuer = "fakeCA" THEN 22 ELSE 23

\* the chains the tests submit
Chains ==
  {<<>>,
   <<NotACert>>,
   <<LeafSignedByFakeIntermediateCert>>,
   <<LeafSignedByFakeIntermediateCert, FakeIntermediateCert>>,
   <<PrecertValid>>,
   <<PrecertValid, FakeIntermediateCert>>,
   <<TestCert>>}

\* the request bodies: nothing, not JSON, or a JSON chain
Bodies == {[json |-> j, chain |-> <<>>] : j \in {"empty", "malformed"}}
            \cup {[json |-> "ok", chain |-> c] : c \in Chains}

\* 4.F step 2: every element parses; non-fatal diagnostics are tolerated for the
\* leaf of a pre-certificate submission only
ParseChain(chain, isPrecert) ==
  \A i \in 1..Len(chain) :
    /\ chain[i].parses
    /\ chain[i].nonFatal => (isPrecert /\ i = 1)

\* 4.F step 3: each certificate is signed by the next, the last by a trusted root
\* (or is one)
VerifyChain(chain, roots) ==
  /\ \A i \in 1..(Len(chain) - 1) : chain[i].issuer = chain[i + 1].name
  /\ \/ chain[Len(chain)].issuer \in roots
     \/ chain[Len(chain)].name \in roots

\* the poison extension is not looked at
ValidateChainAnyLeaf(body, roots, isPrecert) ==
  IF body.json # "ok" THEN "bad json"
  ELSE IF Len(body.chain) = 0 THEN "empty chain"
  ELSE IF ~VerifyChain(body.chain, roots) THEN "no path to a trusted root"
  ELSE ""

\* 4.F steps 1 to 5, in order: "" when the submission is admitted, else why not
ValidateChain(body, roots, isPrecert) ==
  IF body.json # "ok" THEN "bad json"
  ELSE IF Len(body.chain) = 0 THEN "empty chain"
  ELSE IF ~ParseChain(body.chain, isPrecert) THEN "bad certificate"
  ELSE IF ~VerifyChain(body.chain, roots) THEN "no path to a trusted root"
  ELSE IF ~isPrecert /\ body.chain[1].poison THEN "precert in add-chain"
  ELSE IF isPrecert /\ ~body.chain[1].poison THEN "cert in add-pre-chain"
  ELSE ""

\* the timestamp of an SCT issued at time t (in ms) of the time source: fakeTime
\* is millisecond 1469185273000 and the tests expect 1469185273000000
SCTTimestamp(t) == t * 1000

\* signV1SCTForCertificate / signV1SCTForPrecertificate: the MerkleTreeLeaf for the
\* leaf certificate (version V1, timestamped entry, entry type, entry)
MerkleTreeLeafFor(cert, isPrecert, t) ==
  [version |-> 0, leafType |-> 0, timestamp |-> SCTTimestamp(t),
   entryType |-> IF isPrecert THEN 1 ELSE 0,
   entry |-> IF isPrecert THEN <<IssuerKeyHash(cert.issuer), cert.raw + 100>>
                          ELSE <<cert.raw>>]

\* writeMerkleTreeLeaf: the canonical bytes of a MerkleTreeLeaf, no extensions
writeMerkleTreeLeaf(leaf) ==
  <<leaf.version, leaf.leafType, leaf.timestamp, leaf.entryType>> \o leaf.entry \o <<0>>

\* NewCTLogEntry(merkleLeaf, certs).Serialize: the leaf and the whole chain
SerializeLogEntry(leaf, chain) ==
  writeMerkleTreeLeaf(leaf) \o [i \in 1..Len(chain) |-> chain[i].raw]

\* the leaves the backend is sent for a chain: "This is a hash of the leaf data,
\* not the the Merkle hash as defined in the RFC."
leafProtosForCert(chain, merkleLeaf) ==
  <<[leafHash |-> Sum256(writeMerkleTreeLeaf(merkleLeaf)),
     leafData |-> writeMerkleTreeLeaf(merkleLeaf),
     extraData |-> SerializeLogEntry(merkleLeaf, chain)]>>

\* ------------------------------------------------------------ HTTP requests
\* a query parameter as the client wrote it: left out, not a number, or a number
ParamInts == {-1, 0, 1, 2}

\* get-entries is also asked for ranges around the largest one it accepts
RangeInts == ParamInts \cup {MaxGetEntriesRange, MaxGetEntriesRange + 1}

ParamsOver(ints) ==
  {[kind |-> k, val |-> 0] : k \in {"missing", "text"}}
    \cup {[kind |-> "int", val |-> n] : n \in ints}

\* the hash parameter of get-proof-by-hash: left out, empty, not base64, or the
\* base64 of "ahash"
HashParams == {"missing", "", "notbase64data", "YWhhc2g="}

NoParam == [kind |-> "missing", val |-> 0]

NoBody == [json |-> "empty", chain |-> <<>>]

PostHandlers == {"add-chain", "add-pre-chain"}

GetHandlers ==
  {"get-sth", "get-sth-consistency", "get-proof-by-hash", "get-entries",
   "get-entry-and-proof"}

\* the requests a client can send: a path, a method, a body, query parameters
\* (a and b are the two integer parameters of the path, in the order the path
\* names them), and the configuration of the handlers that serve it
Request(path, method, body, a, b, hash, roots) ==
  [path |-> path, method |-> method, body |-> body, a |-> a, b |-> b, hash |-> hash,
   roots |-> roots]

Requests ==
  {Request(h, "POST", bd, NoParam, NoParam, "missing", r) :
     h \in PostHandlers, bd \in Bodies, r \in RootPools}
  \cup
  {Request(h, "GET", NoBody, x, y, "missing", {"CA"}) :
     h \in {"get-sth-consistency", "get-entry-and-proof"},
     x \in ParamsOver(ParamInts), y \in ParamsOver(ParamInts)}
  \cup
  {Request("get-entries", "GET", NoBody, x, y, "missing", {"CA"}) :
     x \in ParamsOver(RangeInts), y \in ParamsOver(RangeInts)}
  \cup
  {Request("get-proof-by-hash", "GET", NoBody, NoParam, y, x, {"CA"}) :
     x \in HashParams, y \in ParamsOver(ParamInts)}
  \cup
  {Request("get-sth", "GET", NoBody, NoParam, NoParam, "missing", {"CA"})}
  \cup
  {Request(h, "GET", NoBody, NoParam, NoParam, "missing", {"CA"}) : h \in PostHandlers}
  \cup
  {Request(h, "POST", NoBody, NoParam, NoParam, "missing", {"CA"}) : h \in GetHandlers}

\* what a handler decides before it calls the backend: a response of its own
\* (status 400 or 500), or the one RPC to issue
Reject(status, reason) == [status |-> status, reason |-> reason, rpc |-> "none", req |-> <<>>]

Call(rpc, req) == [status |-> 0, reason |-> "", rpc |-> rpc, req |-> req]

\* strconv.ParseInt of a query parameter
IsInt(p) == p.kind = "int"

\* base64 decoding of the hash parameter
DecodeHash(h) == IF h = "YWhhc2g=" THEN <<"ahash">> ELSE <<>>

HashDecodes(h) == h \in {"", "YWhhc2g="}

\* buildIndicesForRange(start, end)
buildIndicesForRange(start, end) == [i \in 1..(end - start + 1) |-> start + i - 1]

\* add-chain and add-pre-chain up to the RPC (4.F steps 1 to 10)
AddChain_Request(r, isPrecert, now, signed) ==
  LET why == ValidateChain(r.body, r.roots, isPrecert)
      leaf == MerkleTreeLeafFor(r.body.chain[1], isPrecert, now)
  IN IF why # "" THEN Reject(400, why)
     ELSE IF ~signed THEN Reject(500, "signer failed")
     ELSE Call("QueueLeaves", [logId |-> ctLogID, leaves |-> leafProtosForCert(r.body.chain, leaf)])

\* get-sth has nothing to validate
GetSTH_Request(r) == Call("GetLatestSignedLogRoot", [logId |-> ctLogID])

\* the size of the range is not looked at
GetEntries_RequestAnySize(r) ==
  IF ~IsInt(r.a) \/ ~IsInt(r.b) THEN Reject(400, "bad start or end")
  ELSE IF r.a.val < 0 \/ r.b.val < 0 THEN Reject(400, "negative start or end")
  ELSE IF r.a.val > r.b.val THEN Reject(400, "start beyond end")
  ELSE Call("GetLeavesByIndex", [leafIndex |-> buildIndicesForRange(r.a.val, r.b.val)])

\* get-entries?start=S&end=E: 0 <= S <= E and at most MaxGetEntriesRange entries
GetEntries_Request(r) ==
  IF ~IsInt(r.a) \/ ~IsInt(r.b) THEN Reject(400, "bad start or end")
  ELSE IF r.a.val < 0 \/ r.b.val < 0 THEN Reject(400, "negative start or end")
  ELSE IF r.a.val > r.b.val THEN Reject(400, "start beyond end")
  ELSE IF r.b.val - r.a.val + 1 > MaxGetEntriesRange THEN Reject(400, "range too large")
  ELSE Call("GetLeavesByIndex", [leafIndex |-> buildIndicesForRange(r.a.val, r.b.val)])

\* get-proof-by-hash?hash=H&tree_size=N: valid base64, non-empty hash, N >= 1
GetProofByHash_Request(r) ==
  IF ~IsInt(r.b) \/ r.b.val < 1 THEN Reject(400, "bad tree_size")
  ELSE IF ~HashDecodes(r.hash) \/ Len(DecodeHash(r.hash)) = 0 THEN Reject(400, "bad hash")
  ELSE Call("GetInclusionProofByHash",
            [leafHash |-> DecodeHash(r.hash), treeSize |-> r.b.val, orderBySequence |-> TRUE])

\* a first tree size of 0 is let through
GetSTHConsistency_RequestFromZero(r) ==
  IF ~IsInt(r.a) \/ ~IsInt(r.b) THEN Reject(400, "bad first or second")
  ELSE IF r.a.val < 0 \/ r.b.val <= 0 THEN Reject(400, "first and second must be positive")
  ELSE IF r.a.val >= r.b.val THEN Reject(400, "first not below second")
  ELSE Call("GetConsistencyProof", [firstTreeSize |-> r.a.val, secondTreeSize |-> r.b.val])

\* get-sth-consistency?first=F&second=S: 0 < F < S
GetSTHConsistency_Request(r) ==
  IF ~IsInt(r.a) \/ ~IsInt(r.b) THEN Reject(400, "bad first or second")
  ELSE IF r.a.val <= 0 \/ r.b.val <= 0 THEN Reject(400, "first and second must be positive")
  ELSE IF r.a.val >= r.b.val THEN Reject(400, "first not below second")
  ELSE Call("GetConsistencyProof", [firstTreeSize |-> r.a.val, secondTreeSize |-> r.b.val])

\* a leaf_index at or beyond tree_size is let through
GetEntryAndProof_RequestAnyIndex(r) ==
  IF ~IsInt(r.a) \/ ~IsInt(r.b) THEN Reject(400, "bad leaf_index or tree_size")
  ELSE IF r.a.val < 0 \/ r.b.val < 1 THEN Reject(400, "leaf_index or tree_size out of range")
  ELSE Call("GetEntryAndProof", [leafIndex |-> r.a.val, treeSize |-> r.b.val])

\* get-entry-and-proof?leaf_index=I&tree_size=N: 0 <= I < N, N >= 1
GetEntryAndProof_Request(r) ==
  IF ~IsInt(r.a) \/ ~IsInt(r.b) THEN Reject(400, "bad leaf_index or tree_size")
  ELSE IF r.a.val < 0 \/ r.b.val < 1 THEN Reject(400, "leaf_index or tree_size out of range")
  ELSE IF r.a.val >= r.b.val THEN Reject(400, "leaf_index beyond tree_size")
  ELSE Call("GetEntryAndProof", [leafIndex |-> r.a.val, treeSize |-> r.b.val])

\* the wrapped handler of a path: the method it accepts, then its own checks
HandleRequest(r, now, signed) ==
  IF r.method # (IF r.path \in PostHandlers THEN "POST" ELSE "GET")
    THEN Reject(405, "method not allowed")
  ELSE IF r.path = "add-chain" THEN AddChain_Request(r, FALSE, now, signed)
  ELSE IF r.path = "add-pre-chain" THEN AddChain_Request(r, TRUE, now, signed)
  ELSE IF r.path = "get-sth" THEN GetSTH_Request(r)
  ELSE IF r.path = "get-entries" THEN GetEntries_Request(r)
  ELSE IF r.path = "get-proof-by-hash" THEN GetProofByHash_Request(r)
  ELSE IF r.path = "get-sth-consistency" THEN GetSTHConsistency_Request(r)
  ELSE GetEntryAndProof_Request(r)

\* ------------------------------------------------------- the backend's answers
\* the deadline the handlers put on an RPC for a request that arrived at time t
getRPCDeadlineTime(t) == t + rpcDeadline

\* the deadline expected is the fake time itself
fakeDeadlineTimeNoTimeout(fakeTime) == fakeTime

\* "The deadline should be the above bumped by 500ms"
fakeDeadlineTime(fakeTime) == fakeTime + 500

\* dlMatcher.Matches: the context has a deadline and it is fakeDeadlineTime
Matches(call, fakeTime) == call.hasDeadline /\ call.deadline = fakeDeadlineTime(fakeTime)

GoodProof == [leafIndex |-> 2, nodes |-> <<"abcdef", "ghijkl", "mnopqr">>]

ShortProof == [leafIndex |-> 2, nodes |-> <<"ghijkl">>]

\* a proof with a node whose hash is missing
MissingHashProof == [leafIndex |-> 2, nodes |-> <<"abcdef", "", "ghijkl">>]

\* a root hash of n bytes
HashOfLen(n) == [i \in 1..n |-> 97]

NoRoot == [timestampNanos |-> 0, treeSize |-> 0, rootHash |-> <<>>]

\* an answer of the backend: the RPC's error, the status in the response, and
\* the fields of the response of the RPC that was called
NoResponse ==
  [err |-> "", status |-> "OK", root |-> NoRoot, leaves |-> <<>>, proofs |-> <<>>,
   hasLeaf |-> FALSE, hasProof |-> FALSE]

\* makeGetRootResponseForTest(stamp, treeSize, hash)
makeGetRootResponseForTest(stamp, treeSize, hash) ==
  [NoResponse EXCEPT !.root = [timestampNanos |-> stamp, treeSize |-> treeSize,
                               rootHash |-> hash]]

\* what a backend can return for a range of indices: the leaves asked for, one
\* more, one fewer, a gap, a gap and one more, every index one too high, the
\* first two swapped
LeafAnswers(idx) ==
  LET n == Len(idx)
      end == idx[n]
      AsLeaves(is) == [i \in 1..Len(is) |-> [leafIndex |-> is[i]]]
  IN {AsLeaves(is) : is \in
        {idx, Append(idx, end + 1), SubSeq(idx, 1, n - 1), [idx EXCEPT ![n] = end + 1],
         Append(idx, end + 2), [i \in 1..n |-> idx[i] + 1],
         [i \in 1..n |-> IF n >= 2 /\ i <= 2 THEN idx[3 - i] ELSE idx[i]]}}

\* the answers the mocked log client gives to an RPC
Responses(call) ==
  {[NoResponse EXCEPT !.err = "RPCFAIL"]} \cup
  (IF call.rpc = "QueueLeaves"
     THEN {[NoResponse EXCEPT !.status = st] : st \in {"OK", "ERROR"}}
   ELSE IF call.rpc = "GetLatestSignedLogRoot"
     THEN {makeGetRootResponseForTest(12345, size, HashOfLen(n)) :
             size \in {-50, 0, 25}, n \in {0, 20, sha256Size}}
   ELSE IF call.rpc = "GetLeavesByIndex"
     THEN {[NoResponse EXCEPT !.leaves = ls] : ls \in LeafAnswers(call.req.leafIndex)}
   ELSE IF call.rpc = "GetInclusionProofByHash"
     THEN {[NoResponse EXCEPT !.proofs = ps] :
             ps \in {<<GoodProof>>, <<GoodProof, ShortProof>>, <<ShortProof, GoodProof>>,
                     <<MissingHashProof>>, <<GoodProof, MissingHashProof>>,
                     <<MissingHashProof, GoodProof>>,
                     <<GoodProof, [ShortProof EXCEPT !.leafIndex = 5]>>}}
   ELSE IF call.rpc = "GetConsistencyProof"
     THEN {[NoResponse EXCEPT !.proofs = <<pr>>] : pr \in {GoodProof, ShortProof, MissingHashProof}}
   ELSE {[NoResponse EXCEPT !.hasLeaf = l, !.hasProof = pr, !.proofs = <<GoodProof>>] :
           l \in BOOLEAN, pr \in BOOLEAN})

\* ------------------------------------------------- handlers, after the RPC
Answer(status, reason, body) == [status |-> status, reason |-> reason, body |-> body]

NoAnswer == Answer(0, "", <<>>)

\* a proof is usable when none of its nodes has a zero-length hash
ProofValid(proof) == \A i \in 1..Len(proof.nodes) : Len(proof.nodes[i]) > 0

\* the checks on a backend answer are made in the order the design lists them,
\* and the response names the first one that fails

\* the status of the backend's answer is not looked at
AddChain_ResponseAnyStatus(sct, rsp) == {Answer(200, "", sct)}

\* add-chain and add-pre-chain: anything but OK is a failure (4.F steps 10, 11)
AddChain_Response(sct, rsp) ==
  IF rsp.status # "OK" THEN {Answer(500, "backend status", <<>>)}
  ELSE {Answer(200, "", sct)}

\* the tree head the client gets: the root's fields and the signature over them
SignedTreeHead(root, signed) ==
  [treeSize |-> root.treeSize,
   timestamp |-> root.timestampNanos \div 1000000,
   rootHash |-> root.rootHash,
   signed |-> signed]

\* a root hash of any length is signed and forwarded
GetSTH_ResponseAnyHash(rsp, signed) ==
  IF rsp.root.treeSize < 0 THEN {Answer(500, "bad tree size", <<>>)}
  ELSE IF ~signed THEN {Answer(500, "signerfails", <<>>)}
  ELSE {Answer(200, "", SignedTreeHead(rsp.root, signed))}

\* get-sth: tree_size >= 0, root_hash of 32 bytes, then the tree head is signed
GetSTH_Response(rsp, signed) ==
  IF rsp.root.treeSize < 0 THEN {Answer(500, "bad tree size", <<>>)}
  ELSE IF Len(rsp.root.rootHash) # sha256Size THEN {Answer(500, "bad hash size", <<>>)}
  ELSE IF ~signed THEN {Answer(500, "signerfails", <<>>)}
  ELSE {Answer(200, "", SignedTreeHead(rsp.root, signed))}

\* any number of leaves is taken as long as there are not too many
GetEntries_ResponseUnchecked(idx, rsp) ==
  IF Len(rsp.leaves) > Len(idx) THEN {Answer(500, "too many leaves", <<>>)}
  ELSE {Answer(200, "", rsp.leaves)}

\* get-entries: exactly the leaves asked for, their indices contiguous from the
\* first; which of the two reasons a short answer gets is left open
GetEntries_Response(idx, rsp) ==
  IF Len(rsp.leaves) > Len(idx) THEN {Answer(500, "too many leaves", <<>>)}
  ELSE IF \E i \in 1..Len(rsp.leaves) : rsp.leaves[i].leafIndex # idx[1] + i - 1
    THEN {Answer(500, "non contiguous", <<>>)}
  ELSE IF Len(rsp.leaves) < Len(idx)
    THEN {Answer(500, why, <<>>) : why \in {"too many leaves", "non contiguous"}}
  ELSE {Answer(200, "", rsp.leaves)}

\* the last of the proofs returned is the one examined and sent
GetProof_ResponseLastProof(rpc, rsp) ==
  LET proof == rsp.proofs[Len(rsp.proofs)]
  IN IF ~ProofValid(proof) THEN {Answer(500, "invalid proof", <<>>)}
     ELSE {Answer(200, "", [leafIndex |-> IF rpc = "GetInclusionProofByHash"
                                             THEN proof.leafIndex ELSE 0,
                            nodes |-> proof.nodes])}

\* get-proof-by-hash and get-sth-consistency: the (first) proof, every node of it
\* with a hash
GetProof_Response(rpc, rsp) ==
  IF ~ProofValid(rsp.proofs[1]) THEN {Answer(500, "invalid proof", <<>>)}
  ELSE {Answer(200, "", [leafIndex |-> IF rpc = "GetInclusionProofByHash"
                                          THEN rsp.proofs[1].leafIndex ELSE 0,
                         nodes |-> rsp.proofs[1].nodes])}

\* get-entry-and-proof: the response holds a leaf and a proof
GetEntryAndProof_Response(rsp) ==
  IF ~rsp.hasLeaf \/ ~rsp.hasProof THEN {Answer(500, "incomplete response", <<>>)}
  ELSE {Answer(200, "", [leafIndex |-> 0, nodes |-> rsp.proofs[1].nodes])}

\* the responses a handler may give to the backend's answer rsp to its call
HandleResponse(call, sct, rsp, signed) ==
  IF rsp.err # "" THEN {Answer(500, rsp.err, <<>>)}
  ELSE IF call.rpc = "QueueLeaves" THEN AddChain_Response(sct, rsp)
  ELSE IF call.rpc = "GetLatestSignedLogRoot" THEN GetSTH_Response(rsp, signed)
  ELSE IF call.rpc = "GetLeavesByIndex" THEN GetEntries_Response(call.req.leafIndex, rsp)
  ELSE IF call.rpc \in {"GetInclusionProofByHash", "GetConsistencyProof"}
    THEN GetProof_Response(call.rpc, rsp)
  ELSE GetEntryAndProof_Response(rsp)

\* ------------------------------------------------------------------ actions
\* no request is being served
NoRequest ==
  [req |-> Request("none", "GET", NoBody, NoParam, NoParam, "missing", {}), arrival |-> 0,
   sct |-> <<>>]

\* a request arrives; the handler reads the time source
CT_Arrive ==
  /\ pc[1] = "idle"
  /\ \E r \in Requests :
       loc' = [loc EXCEPT ![1] = [req |-> r, arrival |-> clock, sct |-> <<>>]]
  /\ pc' = [pc EXCEPT ![1] = "arrived"]
  /\ ret' = [ret EXCEPT ![1] = [backend |-> NoResponse, http |-> NoAnswer]]
  /\ log' = [log EXCEPT ![1] = <<>>]
  /\ UNCHANGED <<storage, clock, txn>>

\* the handler validates the request and either answers or calls the backend
CT_Handle ==
  /\ pc[1] = "arrived"
  /\ \E signed \in BOOLEAN :
       LET d == HandleRequest(loc[1].req, clock, signed)
       IN IF d.rpc = "none"
            THEN /\ ret' = [ret EXCEPT ![1].http = Answer(d.status, d.reason, <<>>)]
                 /\ pc' = [pc EXCEPT ![1] = "done"]
                 /\ UNCHANGED <<loc, log>>
            ELSE /\ log' = [log EXCEPT ![1] =
                      Append(@, [rpc |-> d.rpc, req |-> d.req, hasDeadline |-> TRUE,
                                 deadline |-> getRPCDeadlineTime(loc[1].arrival)])]
                 /\ loc' = [loc EXCEPT ![1].sct =
                      IF d.rpc = "QueueLeaves"
                        THEN [sctVersion |-> 0, id |-> ctLogID,
                              timestamp |-> SCTTimestamp(clock), signature |-> "signed"]
                        ELSE <<>>]
                 /\ pc' = [pc EXCEPT ![1] = "rpc"]
                 /\ UNCHANGED ret
  /\ UNCHANGED <<storage, clock, txn>>

\* the backend answers the RPC; leaves it accepts join its pending queue
CT_Backend ==
  /\ pc[1] = "rpc"
  /\ LET call == log[1][Len(log[1])]
     IN IF ~Matches(call, loc[1].arrival)
          THEN /\ ret' = [ret EXCEPT ![1].backend = [NoResponse EXCEPT !.err = "unexpected call"]]
               /\ UNCHANGED <<queue, queued>>
          ELSE \E rsp \in Responses(call) :
                 /\ ret' = [ret EXCEPT ![1].backend = rsp]
                 /\ IF call.rpc = "QueueLeaves" /\ rsp.err = "" /\ rsp.status = "OK"
                      THEN /\ queued < MaxSubmitted
                           /\ queue' = queue \o call.req.leaves
                           /\ queued' = queued + 1
                      ELSE UNCHANGED <<queue, queued>>
  /\ pc' = [pc EXCEPT ![1] = "answered"]
  /\ UNCHANGED <<sequenced, nodes, sths, clock, txn, loc, log>>

\* the handler turns the backend's answer into the HTTP response
CT_Respond ==
  /\ pc[1] = "answered"
  /\ \E signed \in BOOLEAN :
       \E h \in HandleResponse(log[1][Len(log[1])], loc[1].sct, ret[1].backend, signed) :
         ret' = [ret EXCEPT ![1].http = h]
  /\ pc' = [pc EXCEPT ![1] = "done"]
  /\ UNCHANGED <<storage, clock, txn, loc, log>>

\* the response has been written; the handler is ready for the next request
CT_Done ==
  /\ pc[1] = "done"
  /\ pc' = [pc EXCEPT ![1] = "idle"]
  /\ loc' = [loc EXCEPT ![1] = NoRequest]
  /\ ret' = [ret EXCEPT ![1] = [backend |-> NoResponse, http |-> NoAnswer]]
  /\ log' = [log EXCEPT ![1] = <<>>]
  /\ UNCHANGED <<storage, clock, txn>>

InitCT ==
  /\ queue = <<>>
  /\ queued = 0
  /\ sequenced = {}
  /\ nodes = {}
  /\ sths = {}
  /\ clock = 0
  /\ pc = [p \in Procs |-> "idle"]
  /\ txn = [p \in Procs |-> NoTx]
  /\ loc = [p \in Procs |-> NoRequest]
  /\ ret = [p \in Procs |-> [backend |-> NoResponse, http |-> NoAnswer]]
  /\ log = [p \in Procs |-> <<>>]

NextCT ==
  \/ Tick
  \/ CT_Arrive
  \/ CT_Handle
  \/ CT_Backend
  \/ CT_Respond
  \/ CT_Done

\* the CT front end serving requests one after another
SpecCT == InitCT /\ [][NextCT]_vars

\* ================================================================== claims
Failed(p) == pc[p] = "done" /\ ret[p].err # "nil"

Returned(p) == pc[p] = "done" /\ ret[p].err = "nil"

Range(f) == {f[i] : i \in DOMAIN f}

LatestSize == LatestSignedLogRoot(sths).size

\* C1: the sequence numbers of the sequenced leaves in storage are exactly
\* 0 .. tree_size - 1 for the tree_size of the latest stored root, and no number
\* is held by two leaves, whatever invocations ran, succeeded or failed.
C1_DenseSequencing ==
  /\ {r.seq : r \in sequenced} = 0..(LatestSize - 1)
  /\ \A a, b \in sequenced : a.seq = b.seq => a.leaf = b.leaf
  /\ Cardinality(sequenced) = LatestSize

\* three leaves integrated in more than one batch, the last invocation having failed
C1_Witness ==
  /\ LatestSize = 3
  /\ \E s \in sths : s.size \in {1, 2}
  /\ Failed(1)

\* C2: the stored roots have pairwise different tree_revision, and a root with a
\* greater tree_revision never has a smaller tree_size.
C2_RootsMonotonic ==
  \A a, b \in sths :
    /\ a.rev = b.rev => a = b
    /\ a.rev < b.rev => a.size <= b.size

\* a batch, then a re-signed root of the same size, then a batch that grows the tree
C2_Witness ==
  \E a, b, c \in sths :
    /\ a.rev < b.rev /\ b.rev < c.rev
    /\ a.size > 0 /\ a.size = b.size /\ b.size < c.size

\* a step of invocation p that is not the success of a commit
NoCommitStep(p) ==
  /\ txn[p].open
  /\ pc'[p] # pc[p]
  /\ ~(pc[p] \in {"sbCommit", "srCommit"} /\ ret'[p].err = "nil")
  /\ ~(pc[p] = "sbEmpty")

\* C3: a SequenceBatch that fails anywhere from DequeueLeaves to StoreSignedLogRoot
\* leaves the stored state (queue, sequenced leaves, nodes, roots) as it was: no
\* step of an invocation other than a successful commit changes the stored state,
\* and the step that aborts it changes nothing either.
C3_AbortIsAtomic ==
  [][\A p \in Procs : NoCommitStep(p) => UNCHANGED storage]_vars

\* a batch that had dequeued leaves failed storing its root: the leaves are queued
C3_Witness ==
  \E p \in Procs :
    /\ Failed(p)
    /\ ret[p].err = "StoreSignedLogRoot"
    /\ <<"DequeueLeaves", TRUE>> \in Range(log[p])
    /\ queue # <<>>
    /\ LatestSize + Len(queue) = queued

\* C4: in SequenceBatch and SignRoot, a failed call (any but Begin and Commit) is
\* followed by Rollback and by nothing else on the transaction, the transaction is
\* closed, and the invocation has returned count 0 and an error.
C4_FailureRollsBack ==
  \A p \in Procs : \A i \in 1..Len(log[p]) :
    (log[p][i][2] = FALSE /\ log[p][i][1] \notin {"Begin", "Commit"}) =>
      /\ Len(log[p]) = i + 1
      /\ log[p][i + 1] = <<"Rollback", TRUE>>
      /\ ~txn[p].open
      /\ pc[p] = "done"
      /\ ret[p] = [count |-> 0, err |-> log[p][i][1]]

\* SetMerkleNodes failed in a batch, after UpdateSequencedLeaves had succeeded
C4_Witness ==
  \E p \in Procs :
    /\ Failed(p)
    /\ ret[p].err = "SetMerkleNodes"
    /\ <<"UpdateSequencedLeaves", TRUE>> \in Range(log[p])
    /\ log[p][Len(log[p])] = <<"Rollback", TRUE>>

WriteOps == {"UpdateSequencedLeaves", "SetMerkleNodes", "Sign", "StoreSignedLogRoot"}

CalledOps(p) == {log[p][i][1] : i \in 1..Len(log[p])}

\* the step of SequenceBatch that follows LatestSignedLogRoot on a non-empty batch
\* finds the write revision different from the current root's revision plus one
ConflictingStep(p) ==
  /\ pc[p] = "sbHydrate"
  /\ pc'[p] # pc[p]
  /\ txn[p].W # loc[p].currentRoot.rev + 1

\* C5: a SequenceBatch with a non-empty batch whose write revision W is not
\* currentRoot.TreeRevision + 1 rolls back and returns an error, and has called
\* none of UpdateSequencedLeaves, SetMerkleNodes, the signer, StoreSignedLogRoot;
\* it gets to these writes only with W = currentRoot.TreeRevision + 1.
C5_RevisionCheck ==
  /\ [][\A p \in Procs : ConflictingStep(p) =>
          /\ pc'[p] = "done"
          /\ ret'[p].count = 0 /\ ret'[p].err \in {"RevisionCheck", "GetMerkleNodes"}
          /\ ~txn'[p].open
          /\ log'[p][Len(log'[p])] = <<"Rollback", TRUE>>
          /\ CalledOps(p)' \cap WriteOps = {}
          /\ UNCHANGED storage]_vars
  /\ [](\A p \in Procs :
          pc[p] \in {"sbWrite", "sbCommit"} =>
            /\ Len(loc[p].leaves) > 0
            /\ txn[p].W = loc[p].currentRoot.rev + 1)

\* one invocation committed a batch while the other held a transaction of the same
\* write revision; the other then read the new root and failed the revision check
C5_Witness ==
  \E p, q \in Procs :
    /\ Failed(p) /\ ret[p].err = "RevisionCheck"
    /\ Returned(q) /\ ret[q].count >= 1

SequencedLeaves(S) == {r.leaf : r \in S}

\* the step in which invocation p gives up its transaction and returns an error
RollbackStep(p) ==
  /\ txn[p].open
  /\ ~txn'[p].open
  /\ ret'[p].err # "nil"

\* a commit stores at most one root, and none of a revision that is stored already
OneRootPerRevision ==
  /\ [](\A a, b \in sths : a.rev = b.rev => a = b)
  /\ [][/\ Cardinality(sths' \ sths) <= 1
        /\ \A s \in sths' \ sths : \A t \in sths : t.rev # s.rev]_vars

\* no sequence number is stored for two different leaves
OneLeafPerNumber == [](\A a, b \in sequenced : a.seq = b.seq => a.leaf = b.leaf)

\* C6: with invocations of SequenceBatch and SignRoot interleaved freely on one
\* log, at most one of them commits a root for a given tree_revision, no sequence
\* number is committed for two different leaves, and a rollback takes nothing out
\* of the queue: each leaf the rolled-back invocation had dequeued is still queued,
\* or was dequeued as well, and sequenced, by an invocation that committed.
C6_ConflictsRollBack ==
  /\ OneRootPerRevision
  /\ OneLeafPerNumber
  /\ [][\A p \in Procs : RollbackStep(p) =>
          /\ queue' = queue
          /\ \A l \in txn[p].deq :
               l \in Range(queue') \/ l \in SequencedLeaves(sequenced')]_vars

\* C6 as stated: every leaf a rolled-back invocation had dequeued is in the queue
C6_AsStated ==
  /\ OneRootPerRevision
  /\ OneLeafPerNumber
  /\ [][\A p \in Procs : RollbackStep(p) =>
          \A l \in txn[p].deq : l \in Range(queue')]_vars

\* only leaf 1 was ever queued and both invocations had dequeued it: one committed
\* it, the other was past its dequeue when it failed and rolled back
C6_Witness ==
  \E p, q \in Procs :
    /\ queued = 1
    /\ Failed(p) /\ ret[p].err \in {"RevisionCheck", "SetMerkleNodes"}
    /\ Returned(q) /\ ret[q].count = 1
    /\ sequenced = {[leaf |-> 1, seq |-> 0]}
    /\ queue = <<>>

\* root n is what a batch of k leaves on top of root cur must produce at revision W
\* from compact tree mt, the tree after the k appends
BatchRootOf(n, cur, k, W, mt) ==
  /\ n.size = cur.size + k
  /\ n.rev = W
  /\ n.logId = cur.logId
  /\ TreeSize(mt) = cur.size + k
  /\ n.hash = CurrentRoot(mt)
  /\ n.sig = SignLogRoot([n EXCEPT !.sig = NoHash])
  /\ n.sig # NoHash

\* C7: a SequenceBatch that dequeued k >= 1 leaves and commits stores exactly one
\* new root, with tree_size = currentRoot.TreeSize + k, tree_revision = the write
\* revision, the log id of currentRoot, the time source's now as of building it,
\* the compact tree's root after the k appends, and a signature over it; and it
\* returns k.
C7_CommittedBatchRoot ==
  /\ [][\A p \in Procs : (pc[p] = "sbWrite" /\ pc'[p] = "sbCommit") =>
          \E n \in txn'[p].sthWrites :
            /\ txn'[p].sthWrites = {n}
            /\ n = loc'[p].newLogRoot
            /\ n.ts = clock
            /\ BatchRootOf(n, loc[p].currentRoot, Len(loc[p].leaves), txn[p].W,
                           loc[p].merkleTree)]_vars
  /\ [][\A p \in Procs : (pc[p] = "sbCommit" /\ ret'[p].err = "nil") =>
          /\ Len(loc[p].leaves) >= 1
          /\ ret'[p].count = Len(loc[p].leaves)
          /\ sths' \ sths = {loc[p].newLogRoot}
          /\ loc[p].currentRoot = LatestSignedLogRoot(sths)
          /\ BatchRootOf(loc[p].newLogRoot, LatestSignedLogRoot(sths),
                         Len(loc[p].leaves), txn[p].W, loc[p].merkleTree)]_vars

\* a batch of two leaves was committed on a provisioned log that held one leaf,
\* its root built after the clock had advanced
C7_Witness ==
  /\ Returned(1) /\ ret[1].count = 2
  /\ LatestSignedLogRoot(sths).size = 3
  /\ LatestSignedLogRoot(sths).logId = 1
  /\ LatestSignedLogRoot(sths).ts = 1
  /\ LatestSignedLogRoot(sths).rev = 3

\* the leaf hashes of the leaves stored with sequence numbers 0 .. n - 1, in order
LeafHashesUpTo(n) ==
  [i \in 1..n |->
     IF \E r \in sequenced : r.seq = i - 1
     THEN LeafHashOf((CHOOSE r \in sequenced : r.seq = i - 1).leaf)
     ELSE NoHash]

\* C8: the root_hash of every stored root is the RFC 6962 Merkle tree hash of the
\* leaf hashes of sequence numbers 0 .. tree_size - 1, however the leaves were
\* batched and with the tree hydrated from storage between batches; a root of
\* tree_size 1 has the leaf hash of leaf 0 as its root_hash.
C8_RootIsReferenceHash ==
  \A s \in sths :
    /\ s.hash = MTH(LeafHashesUpTo(s.size))
    /\ s.size = 1 => s.hash = LeafHashesUpTo(1)[1]
    /\ \A i \in 1..s.size : LeafHashesUpTo(s.size)[i] # NoHash

\* roots of sizes 1 and 3: a batch of two leaves on a tree hydrated at size 1
C8_Witness ==
  /\ \E a, b \in sths : a.size = 1 /\ b.size = 3 /\ b.rev = a.rev + 1
  /\ Returned(1)

\* the leaf hash at index i as of revision rev: the leaf-level node rows read back
LeafHashAt(rev, i) == {n.hash : n \in GetMerkleNodes(nodes, rev, 0, i)}

\* C9: for stored roots a and b with a.rev < b.rev, the leaf hashes at indices
\* 0 .. a.size - 1 as of a.rev are those at the same indices as of b.rev, so the
\* leaves of a are a prefix of the leaves of b; a later batch changes no stored
\* sequence number and adds only numbers from the tree size on.
C9_PrefixProperty ==
  /\ [](\A a, b \in sths : a.rev < b.rev =>
          /\ a.size <= b.size
          /\ \A i \in 0..(a.size - 1) :
               /\ Cardinality(LeafHashAt(a.rev, i)) = 1
               /\ LeafHashAt(a.rev, i) = LeafHashAt(b.rev, i)
               /\ LeafHashAt(a.rev, i) = {LeafHashesUpTo(a.size)[i + 1]})
  /\ [][/\ sequenced \subseteq sequenced'
        /\ \A r \in sequenced' \ sequenced : r.seq >= LatestSize]_vars

\* three roots of growing size, each batch integrated on top of the one before
C9_Witness ==
  \E a, b, c \in sths :
    /\ a.rev < b.rev /\ b.rev < c.rev
    /\ a.size = 1 /\ b.size = 2 /\ c.size = 3

\* C10: in a SequenceBatch the i-th leaf DequeueLeaves returned (from 0) has the
\* sequence number currentRoot.TreeSize + i, and UpdateSequencedLeaves is handed
\* exactly the dequeued leaves with these numbers.
C10_BatchOrder ==
  \A p \in Procs : pc[p] \in {"sbWrite", "sbCommit"} =>
    LET leaves == loc[p].leaves
        dequeued == DequeueLeaves(queue, Cardinality(txn[p].deq))
    IN /\ Len(leaves) = Len(dequeued)
       /\ \A i \in 1..Len(leaves) :
            /\ leaves[i].id = dequeued[i].id
            /\ leaves[i].hash = dequeued[i].hash
            /\ leaves[i].seq = loc[p].currentRoot.size + (i - 1)
       /\ pc[p] = "sbCommit" =>
            txn[p].leafWrites =
              {[leaf |-> dequeued[i].id, seq |-> loc[p].currentRoot.size + (i - 1)] :
                 i \in 1..Len(dequeued)}

\* a batch of two leaves on a tree of size 1 has been handed to storage
C10_Witness ==
  /\ pc[1] = "sbCommit"
  /\ Len(loc[1].leaves) = 2
  /\ loc[1].currentRoot.size = 1

\* C11: a leaf stored with a sequence number keeps it: no step of a SequenceBatch
\* or SignRoot, successful or failed, removes or changes a stored row, and no leaf
\* is ever stored with two sequence numbers.
C11_SequenceNumberIsFinal ==
  /\ [](\A a, b \in sequenced : a.leaf = b.leaf => a.seq = b.seq)
  /\ [](\A r \in sequenced : r.seq >= 0)
  /\ [][sequenced \subseteq sequenced']_vars

\* leaf 1 was sequenced, a root was re-signed, and then a batch holding a later
\* leaf failed while writing
C11_Witness ==
  /\ sequenced = {[leaf |-> 1, seq |-> 0]}
  /\ \E a, b \in sths : a.rev = 1 /\ a.size = 1 /\ b.rev = 2 /\ b.size = 1
  /\ LatestRev(sths) = 2
  /\ Failed(1) /\ ret[1].err = "SetMerkleNodes"

\* the step in which invocation p, entered as entry, returns without error
ReturnsNil(p, entry) ==
  /\ pc[p] # "done"
  /\ pc'[p] = "done"
  /\ ret'[p].err = "nil"
  /\ loc[p].entry = entry

\* the latest stored revision is one more than when p's transaction began
RevisionStepped(p) ==
  /\ LatestRev(sths') = LatestRev(sths) + 1
  /\ LatestRev(sths') = txn[p].W
  /\ Cardinality(sths' \ sths) = 1

\* C12: a SequenceBatch that commits a non-empty batch raises the latest stored
\* tree_revision by exactly 1, and so does every SignRoot that commits, called
\* directly or by SequenceBatch for an expired root; a SequenceBatch that finds no
\* leaf and no expired root returns without error and stores no root; no other
\* step changes the stored roots.
C12_RevisionStepsByOne ==
  [][/\ \A p \in Procs :
          /\ (pc[p] \in {"sbCommit", "srCommit"} /\ ret'[p].err = "nil") =>
               RevisionStepped(p)
          /\ (pc[p] = "sbEmpty" /\ ReturnsNil(p, "SequenceBatch")) => sths' = sths
          /\ (ReturnsNil(p, "SequenceBatch") /\ pc[p] # "sbEmpty") => RevisionStepped(p)
          /\ ReturnsNil(p, "SignRoot") => RevisionStepped(p)
     /\ sths' # sths =>
          \E p \in Procs : pc[p] \in {"sbCommit", "srCommit"} /\ pc'[p] = "done"]_vars

\* C12 as stated: every SequenceBatch that returns without error, and every
\* SignRoot that does, has raised the latest stored revision by exactly 1
C12_AsStated ==
  [][\A p \in Procs :
       (ReturnsNil(p, "SequenceBatch") \/ ReturnsNil(p, "SignRoot")) =>
         RevisionStepped(p)]_vars

\* a batch, then a re-signed root, then a SequenceBatch that found nothing to do
\* and returned without error, the latest revision still 2
C12_Witness ==
  /\ \E a, b \in sths : a.rev = 1 /\ a.size = 1 /\ b.rev = 2 /\ b.size = 1
  /\ LatestRev(sths) = 2
  /\ Returned(1) /\ ret[1].count = 0
  /\ log[1] = Called(<<"Begin", "DequeueLeaves", "LatestSignedLogRoot", "Commit">>)

SignRootStates == {"srBegin", "srLatestRoot", "srHydrate", "srSignStore", "srCommit"}

\* C13: a SequenceBatch whose DequeueLeaves returned no leaf takes the empty-batch
\* branch: it calls Commit on its transaction, in which it has called none of
\* UpdateSequencedLeaves, SetMerkleNodes, StoreSignedLogRoot; it then calls SignRoot,
\* which begins a fresh transaction after that commit, exactly when
\* expiryFunc(currentRoot) holds of the root it read; otherwise it returns (0, nil)
\* with the stored roots unchanged. Through SignRoot it returns count 0 as well.
C13_EmptyBatch ==
  /\ [][\A p \in Procs :
          /\ (pc[p] = "sbLatestRoot" /\ pc'[p] \notin {"sbLatestRoot", "done"}) =>
               (pc'[p] = "sbEmpty" <=> Len(loc[p].leaves) = 0)
          /\ (pc[p] = "sbEmpty" /\ pc'[p] # "sbEmpty") =>
               /\ \E ok \in BOOLEAN : log'[p] = Append(log[p], <<"Commit", ok>>)
               /\ CalledOps(p) \cap WriteOps = {}
               /\ txn[p].open /\ ~txn'[p].open
               /\ txn[p].leafWrites = {} /\ txn[p].nodeWrites = {}
               /\ txn[p].sthWrites = {}
               /\ sths' = sths
               /\ IF Expired(loc[p].expiryFunc, loc[p].currentRoot, clock)
                  THEN pc'[p] = "srBegin"
                  ELSE pc'[p] = "done" /\ ret'[p] = [count |-> 0, err |-> "nil"]
          /\ (pc[p] = "srBegin" /\ pc'[p] # "srBegin") =>
               \E ok \in BOOLEAN : log'[p] = Append(log[p], <<"Begin", ok>>)
          /\ (pc'[p] = "srBegin" /\ pc[p] # "srBegin") => pc[p] = "sbEmpty"
          /\ (pc[p] \in SignRootStates /\ pc'[p] = "done") => ret'[p].count = 0]_vars
  /\ [](\A p \in Procs : pc[p] = "srBegin" => ~txn[p].open)

\* an empty batch found its root aged past the clock, committed, and SignRoot has
\* begun its own transaction
C13_Witness ==
  /\ pc[1] = "srLatestRoot"
  /\ loc[1].entry = "SequenceBatch"
  /\ loc[1].expiryFunc = "aged"
  /\ loc[1].currentRoot.size >= 1
  /\ txn[1].open
  /\ log[1][Len(log[1]) - 1] = <<"Commit", TRUE>>

\* C14: a SignRoot that commits stores exactly one new root, with the tree_size
\* and log id of the root it read, that root's tree_revision plus one, and the
\* root hash of the tree at that size (the hash of the root it read when the tree
\* is not empty, the empty root when it is), signed; it writes no leaf and no
\* node. On a log with no root yet the new root has size 0, the empty root hash
\* and revision 1.
C14_SignRootResult ==
  [][\A p \in Procs : (pc[p] = "srCommit" /\ ret'[p].err = "nil") =>
       LET cur == loc[p].currentRoot
           n == loc[p].newLogRoot
       IN /\ sths' \ sths = {n}
          /\ n.size = cur.size
          /\ n.rev = cur.rev + 1
          /\ n.logId = cur.logId
          /\ n.hash = (IF cur.size > 0 THEN cur.hash ELSE EmptyRoot)
          /\ n.hash = MTH(LeafHashesUpTo(cur.size))
          /\ n.sig = SignLogRoot([n EXCEPT !.sig = NoHash])
          /\ UNCHANGED <<queue, queued, sequenced, nodes>>
          /\ txn[p].leafWrites = {} /\ txn[p].nodeWrites = {}
          /\ sths = {} => (n.size = 0 /\ n.hash = EmptyRoot /\ n.rev = 1)]_vars

\* SignRoot on the fresh log, a batch of two leaves, and a SignRoot that committed
\* over the tree of size 2
C14_Witness ==
  /\ \E a, b, c \in sths :
       /\ a.rev = 1 /\ a.size = 0 /\ a.hash = EmptyRoot /\ a.logId = 0
       /\ b.rev = 2 /\ b.size = 2
       /\ c.rev = 3 /\ c.size = 2 /\ c.hash = b.hash
  /\ Returned(1)
  /\ log[1][1] = <<"Begin", TRUE>>
  /\ log[1][Len(log[1]) - 1] = <<"StoreSignedLogRoot", TRUE>>
  /\ <<"DequeueLeaves", TRUE>> \notin Range(log[1])

\* C15: an invocation of SequenceBatch or SignRoot in which a Commit call failed
\* has returned an error to its caller, on every path that commits, the empty
\* batch of SequenceBatch included.
C15_CommitFailurePropagates ==
  \A p \in Procs :
    (pc[p] = "done" /\ <<"Commit", FALSE>> \in Range(log[p])) => ret[p].err # "nil"

\* the leaf hashes of a tree of size old grown by the first k queued leaves
GrownLeafHashes(old, k) ==
  [i \in 1..(old + k) |->
     IF i <= old THEN LeafHashesUpTo(old)[i] ELSE LeafHashOf(queue[i - old])]

\* the node rows a batch writes at revision W when it grows the tree from old to
\* old + k leaves: every complete subtree whose last leaf is one of the new leaves
GrownNodes(old, k, W) ==
  LET H == GrownLeafHashes(old, k)
      ids == {id \in (0..NumLevels(old + k)) \X (0..(old + k - 1)) :
                /\ (id[2] + 1) * Pow2(id[1]) <= old + k
                /\ (id[2] + 1) * Pow2(id[1]) - 1 >= old}
  IN {[depth |-> id[1], index |-> id[2], rev |-> W,
       hash |-> MTH(SubSeq(H, id[2] * Pow2(id[1]) + 1, (id[2] + 1) * Pow2(id[1])))] :
        id \in ids}

\* the stored state after this step is what one SequenceBatch without failure
\* makes of the stored state before it, k leaves being dequeued
BatchResult(k) ==
  LET old == LatestSize
      new == LatestSignedLogRoot(sths')
  IN /\ queue' = SubSeq(queue, k + 1, Len(queue))
     /\ sequenced' = sequenced \cup {[leaf |-> queue[j], seq |-> old + j - 1] : j \in 1..k}
     /\ nodes' = nodes \cup GrownNodes(old, k, LatestRev(sths) + 1)
     /\ Cardinality(sths' \ sths) = 1
     /\ new \notin sths
     /\ new.size = old + k
     /\ new.rev = LatestRev(sths) + 1
     /\ new.hash = MTH(GrownLeafHashes(old, k))

\* C16: a failed SequenceBatch leaves the stored state as it found it, step by
\* step, and a SequenceBatch without failure turns the stored state it finds into
\* a state that depends on that state and the leaves dequeued only; so the re-run
\* after a failure ends in the state one run without failure would have produced
\* (sequence numbers, node rows, latest tree_size, root_hash and tree_revision).
C16_RerunAfterFailure ==
  [][\A p \in Procs :
       /\ (pc[p] # pc'[p] /\ ~(pc[p] \in {"sbCommit", "srCommit"} /\ ret'[p].err = "nil"))
            => UNCHANGED storage
       /\ (pc[p] = "sbCommit" /\ ret'[p].err = "nil") => BatchResult(Len(loc[p].leaves))]_vars

\* a batch of sequencer 1 that had dequeued failed storing its root, and the re-run
\* by sequencer 2 integrated two leaves on top of the one stored before
C16_Witness ==
  /\ FailedBatch(1) /\ ret[1].err = "StoreSignedLogRoot"
  /\ Returned(2) /\ ret[2].count = 2
  /\ LatestSize = 3
  /\ {r.leaf : r \in sequenced} = {1, 2, 3}

\* the spine levels of a tree of the given size, lowest first
RECURSIVE SpineLevels(_, _)
SpineLevels(size, l) ==
  IF l >= NumLevels(size) THEN <<>>
  ELSE (IF Bit(size, l) = 1 THEN <<l>> ELSE <<>>) \o SpineLevels(size, l + 1)

\* the rows storage returns for the spine node of level l of root
SpineRows(root, l) == GetMerkleNodes(nodes, root.rev, l, Shr(root.size, l) - 1)

\* the root the spine hashes of root combine to, lowest level first
RECURSIVE CombineSpine(_, _, _, _)
CombineSpine(root, levels, i, acc) ==
  IF i > Len(levels) THEN acc
  ELSE LET h == (CHOOSE n \in SpineRows(root, levels[i]) : TRUE).hash
       IN CombineSpine(root, levels, i + 1, IF i = 1 THEN h ELSE HashChildren(h, acc))

\* storage does not return exactly one row for some spine node of root
SpineRowMiscount(root) ==
  \E l \in Range(SpineLevels(root.size, 0)) : Cardinality(SpineRows(root, l)) # 1

\* each spine node has its one row, and they do not combine to root's hash
SpineRootMismatch(root) ==
  /\ ~SpineRowMiscount(root)
  /\ CombineSpine(root, SpineLevels(root.size, 0), 1, NoHash) # root.hash

\* C17: with currentRoot.TreeSize > 0, when storage returns other than exactly one
\* node for a spine node id read at currentRoot.TreeRevision, or the spine read
\* does not combine to currentRoot's root hash, the hydration step of SequenceBatch
\* (non-empty batch) and of SignRoot aborts: Rollback is called, an error and
\* count 0 are returned, and no leaf, node or root is stored.
C17_CorruptStateAborts ==
  [][\A p \in Procs :
       LET cur == loc[p].currentRoot
       IN (/\ pc[p] \in {"sbHydrate", "srHydrate"}
           /\ pc'[p] # pc[p]
           /\ cur.size > 0
           /\ SpineRowMiscount(cur) \/ SpineRootMismatch(cur)) =>
            /\ pc'[p] = "done"
            /\ ret'[p].count = 0
            /\ ret'[p].err \in {"GetMerkleNodes", "NewCompactMerkleTreeWithState"}
            /\ log'[p][Len(log'[p])] = <<"Rollback", TRUE>>
            /\ CalledOps(p)' \cap WriteOps = {}
            /\ ~txn'[p].open
            /\ UNCHANGED storage]_vars

\* the rows of the spine were all there but one hash had been changed, and the
\* hydration of a tree of size 2 failed on the root
C17_Witness ==
  /\ Failed(1)
  /\ ret[1].err = "NewCompactMerkleTreeWithState"
  /\ LatestSize = 2
  /\ SpineRootMismatch(LatestSignedLogRoot(sths))

\* among the first n calls: transactions begun, and Commit or Rollback calls
Begun(calls, n) == Cardinality({i \in 1..n : calls[i] = <<"Begin", TRUE>>})

Released(calls, n) == Cardinality({i \in 1..n : calls[i][1] \in {"Commit", "Rollback"}})

\* C18: in every invocation of SequenceBatch or SignRoot each transaction begun
\* is released by exactly one call of Commit or Rollback before the invocation
\* returns, every other call is made on the one open transaction, and a second
\* transaction is begun only after the first was released (the empty batch with
\* an expired root commits before SignRoot begins).
C18_TransactionReleasedOnce ==
  \A p \in Procs :
    LET calls == log[p]
        held(n) == Begun(calls, n) - Released(calls, n)
    IN /\ \A n \in 0..Len(calls) : held(n) \in {0, 1}
       /\ \A i \in 1..Len(calls) :
            IF calls[i][1] = "Begin" THEN held(i - 1) = 0 ELSE held(i - 1) = 1
       /\ txn[p].open <=> held(Len(calls)) = 1
       /\ pc[p] = "done" => held(Len(calls)) = 0
       /\ pc[p] # "panic"

\* the empty batch committed its transaction, SignRoot began a second one, failed
\* storing the root and rolled it back
C18_Witness ==
  /\ Failed(1) /\ ret[1].err = "StoreSignedLogRoot"
  /\ Begun(log[1], Len(log[1])) = 2
  /\ Released(log[1], Len(log[1])) = 2
  /\ log[1][4] = <<"Commit", TRUE>>
  /\ log[1][Len(log[1])] = <<"Rollback", TRUE>>

\* the levels of a spine that hold a hash
Occupied(spine) == {l \in 0..(Len(spine) - 1) : spine[l + 1] # NoHash}

\* C19: for a compact tree grown by appends from the empty tree, each append
\* returns the size before it and raises the size by exactly 1, and spine level l
\* holds a hash exactly when bit l of the size is 1.
C19_SpineMatchesSize ==
  /\ [](LET mt == loc[1].merkleTree
        IN /\ Occupied(mt.spine) = {l \in 0..MaxAppends : Bit(mt.size, l) = 1}
           /\ Len(mt.spine) <= NumLevels(mt.size))
  /\ [][loc'[1].merkleTree # loc[1].merkleTree =>
          /\ TreeSize(loc'[1].merkleTree) = TreeSize(loc[1].merkleTree) + 1
          /\ ret'[1].count = TreeSize(loc[1].merkleTree)]_vars

\* six appends: levels 1 and 2 of the spine hold a hash, level 0 does not
C19_Witness ==
  /\ pc[1] = "idle"
  /\ TreeSize(loc[1].merkleTree) = 6
  /\ ret[1].count = 5
  /\ Occupied(loc[1].merkleTree.spine) = {1, 2}

NodeIds(N) == {<<n.depth, n.index>> : n \in N}

\* C20: a node row is never changed or removed, there is one row at most per node
\* id and revision, and the rows a SequenceBatch stores all carry the write
\* revision, which is the latest stored tree_revision plus one; so what is read at
\* the revision of any stored root (the most recent row at or before it, per node
\* id) is the same after every later SequenceBatch and SignRoot.
C20_NodeRowsImmutable ==
  /\ [](\A a, b \in nodes : SameNode(a, b) => a = b)
  /\ [][/\ nodes \subseteq nodes'
        /\ \A n \in nodes' \ nodes :
             /\ n.rev = LatestRev(sths) + 1
             /\ \E p \in Procs : pc[p] = "sbCommit" /\ n.rev = txn[p].W
        /\ \A R \in sths : \A id \in NodeIds(nodes') :
             GetMerkleNodes(nodes', R.rev, id[1], id[2]) =
               GetMerkleNodes(nodes, R.rev, id[1], id[2])]_vars

\* rows of revision 1, a re-signed root of revision 2 that reads them, and rows of
\* revision 3 from a later batch that replaced no row
C20_Witness ==
  /\ \E a, b \in nodes : a.rev = 1 /\ b.rev = 3
  /\ \A n \in nodes : n.rev # 2
  /\ \E r, t \in sths : r.rev = 1 /\ t.rev = 2 /\ r.size = t.size
  /\ LatestRev(sths) = 3

\* ------------------------------------------------ claims on the CT front end
\* the request being served, its RPCs and its response
Req == loc[1].req

Rpcs == log[1]

Http == ret[1].http

\* a POST to add-chain or add-pre-chain is being served or has been answered
Submission == pc[1] # "idle" /\ Req.path \in PostHandlers /\ Req.method = "POST"

\* the chain leads to a trusted root: every certificate parses, names the next as
\* its issuer, and the last is issued by a root of the pool or is one
RECURSIVE LeadsToRoot(_, _, _)
LeadsToRoot(chain, i, roots) ==
  /\ chain[i].parses
  /\ IF i = Len(chain)
       THEN chain[i].issuer \in roots \/ chain[i].name \in roots
       ELSE chain[i + 1].name = chain[i].issuer /\ LeadsToRoot(chain, i + 1, roots)

\* the submission fails validation: empty or malformed JSON, an empty chain, a
\* chain that does not build to a trusted root, a pre-certificate sent to
\* add-chain, a certificate sent to add-pre-chain
FailsValidation(r) ==
  \/ r.body.json \in {"empty", "malformed"}
  \/ r.body.chain = <<>>
  \/ ~LeadsToRoot(r.body.chain, 1, r.roots)
  \/ r.path = "add-chain" /\ r.body.chain[1].poison
  \/ r.path = "add-pre-chain" /\ ~r.body.chain[1].poison

\* C21: a submission to add-chain or add-pre-chain that fails validation is
\* answered with 400, no QueueLeaves RPC is issued for it, and the pending queue
\* is the same after the rejection as before the request
C21_RejectionLeavesQueue ==
  /\ [](Submission /\ FailsValidation(Req) =>
          /\ Rpcs = <<>>
          /\ pc[1] \in {"arrived", "done"}
          /\ pc[1] = "done" => Http.status = 400)
  /\ [][Submission /\ FailsValidation(Req) => queue' = queue]_vars

\* a chain without its intermediate has been rejected while a leaf is pending
C21_Witness ==
  /\ Submission
  /\ pc[1] = "done"
  /\ Req.body.chain = <<LeafSignedByFakeIntermediateCert>>
  /\ Http.status = 400
  /\ Len(queue) = 1

\* the leaves sent to the backend so far by the request being served, and those
\* the backend holds
SubmittedLeaves ==
  {Rpcs[i].req.leaves[1] : i \in {j \in 1..Len(Rpcs) : Rpcs[j].rpc = "QueueLeaves"}}

StoredLeaves == {queue[i] : i \in 1..Len(queue)}

\* the RFC 6962 leaf hash: the hash of the 0x00 domain prefix followed by the data
RFC6962LeafHash(b) == Sum256(<<0>> \o b)

\* C22: every leaf that add-chain or add-pre-chain submits to the backend, and so
\* every stored leaf, has leaf_hash equal to the RFC 6962 leaf hash of its
\* leaf_data (the hash of 0x00 followed by leaf_data), not the plain hash of it
C22_LeafHashIsMerkleHash ==
  \A l \in SubmittedLeaves \cup StoredLeaves :
    /\ l.leafHash = RFC6962LeafHash(l.leafData)
    /\ l.leafHash # Sum256(l.leafData)

\* a GET of the path is being served and the handler has acted on it
Handled(path) ==
  /\ pc[1] \in {"rpc", "answered", "done"}
  /\ Req.path = path
  /\ Req.method = "GET"

\* start and end are both present and numeric, 0 <= start <= end, and the range
\* holds no more than 1000 entries
RangeAcceptable(r) ==
  /\ r.a.kind = "int"
  /\ r.b.kind = "int"
  /\ 0 <= r.a.val
  /\ r.a.val <= r.b.val
  /\ r.b.val - r.a.val + 1 <= 1000

\* C23: get-entries issues GetLeavesByIndex if and only if start and end are
\* present, numeric, 0 <= start <= end and the range is within the cap of 1000;
\* the RPC asks for exactly start, start+1, ..., end; every other request gets
\* 400 and no RPC
C23_GetEntriesRange ==
  Handled("get-entries") =>
    IF RangeAcceptable(Req)
      THEN /\ Len(Rpcs) = 1
           /\ Rpcs[1].rpc = "GetLeavesByIndex"
           /\ Len(Rpcs[1].req.leafIndex) = Req.b.val - Req.a.val + 1
           /\ \A i \in 1..Len(Rpcs[1].req.leafIndex) :
                Rpcs[1].req.leafIndex[i] = Req.a.val + i - 1
      ELSE /\ Rpcs = <<>>
           /\ pc[1] = "done"
           /\ Http.status = 400

\* the largest range has been asked for and the RPC for its 1000 indices is out
C23_Witness ==
  /\ Handled("get-entries")
  /\ pc[1] = "rpc"
  /\ Req.a.val = 1
  /\ Req.b.val = 1000
  /\ Len(Rpcs[1].req.leafIndex) = 1000

\* get-entries was asked for an acceptable range and the backend has returned
\* leaves for it
LeavesReturned ==
  /\ Handled("get-entries")
  /\ pc[1] = "done"
  /\ Len(Rpcs) = 1
  /\ ret[1].backend.err = ""

\* the leaves returned have the indices S, S+1, ... in order
ContiguousFrom(leaves, S) == \A i \in 1..Len(leaves) : leaves[i].leafIndex = S + i - 1

\* C24 as stated: 200 only for exactly E - S + 1 leaves with indices S..E in
\* order; more leaves give 500 'too many leaves'; indices not contiguous from S
\* give 500 'non contiguous'
C24_AsStated ==
  LeavesReturned =>
    LET leaves == ret[1].backend.leaves
        n == Req.b.val - Req.a.val + 1
    IN /\ Http.status = 200 => Len(leaves) = n /\ ContiguousFrom(leaves, Req.a.val)
       /\ Len(leaves) > n => Http.status = 500 /\ Http.reason = "too many leaves"
       /\ ~ContiguousFrom(leaves, Req.a.val) =>
            Http.status = 500 /\ Http.reason = "non contiguous"

\* C24: 200 only for exactly E - S + 1 leaves with indices S..E in order, which
\* are then the entries of the response; more leaves give 500 'too many leaves';
\* no more than E - S + 1 leaves whose indices are not contiguous from S give 500
\* 'non contiguous'
C24_GetEntriesResponse ==
  LeavesReturned =>
    LET leaves == ret[1].backend.leaves
        n == Req.b.val - Req.a.val + 1
    IN /\ Http.status \in {200, 500}
       /\ Http.status = 200 =>
            Len(leaves) = n /\ ContiguousFrom(leaves, Req.a.val) /\ Http.body = leaves
       /\ Len(leaves) > n => Http.status = 500 /\ Http.reason = "too many leaves"
       /\ Len(leaves) <= n /\ ~ContiguousFrom(leaves, Req.a.val) =>
            Http.status = 500 /\ Http.reason = "non contiguous"

\* asked for 1..2, the backend returned the leaves 1 and 3
C24_Witness ==
  /\ LeavesReturned
  /\ Req.a.val = 1
  /\ Req.b.val = 2
  /\ ret[1].backend.leaves = <<[leafIndex |-> 1], [leafIndex |-> 3]>>
  /\ Http.status = 500
  /\ Http.reason = "non contiguous"

\* get-sth was asked and the backend has returned a signed root
RootReturned ==
  /\ Req.path = "get-sth"
  /\ Req.method = "GET"
  /\ pc[1] = "done"
  /\ Len(Rpcs) = 1
  /\ ret[1].backend.err = ""

\* C25 as stated: tree_size < 0 gives 500 'bad tree size'; a root_hash not of 32
\* bytes gives 500 'bad hash size'; such a root is never forwarded; 200 only for
\* tree_size >= 0, a 32-byte root_hash and successful signing
C25_AsStated ==
  RootReturned =>
    LET root == ret[1].backend.root
    IN /\ root.treeSize < 0 => Http.status = 500 /\ Http.reason = "bad tree size"
       /\ Len(root.rootHash) # 32 => Http.status = 500 /\ Http.reason = "bad hash size"
       /\ Http.status # 200 => Http.body = <<>>
       /\ Http.status = 200 =>
            root.treeSize >= 0 /\ Len(root.rootHash) = 32 /\ Http.body.signed

\* C25: tree_size < 0 gives 500 'bad tree size'; tree_size >= 0 with a root_hash
\* not of 32 bytes gives 500 'bad hash size'; such a root is never forwarded; 200
\* only for tree_size >= 0, a 32-byte root_hash and successful signing, and then
\* with the root's own size and hash
C25_GetSTHResponse ==
  RootReturned =>
    LET root == ret[1].backend.root
    IN /\ Http.status \in {200, 500}
       /\ root.treeSize < 0 => Http.status = 500 /\ Http.reason = "bad tree size"
       /\ root.treeSize >= 0 /\ Len(root.rootHash) # 32 =>
            Http.status = 500 /\ Http.reason = "bad hash size"
       /\ Http.status # 200 => Http.body = <<>>
       /\ Http.status = 200 =>
            /\ root.treeSize >= 0
            /\ Len(root.rootHash) = 32
            /\ Http.body.signed
            /\ Http.body.treeSize = root.treeSize
            /\ Http.body.rootHash = root.rootHash

\* a root of size 25 with a 20-byte hash has been refused
C25_Witness ==
  /\ RootReturned
  /\ ret[1].backend.root.treeSize = 25
  /\ Len(ret[1].backend.root.rootHash) = 20
  /\ Http.status = 500
  /\ Http.reason = "bad hash size"
  /\ Http.body = <<>>

\* a proof was asked for and the backend has returned one (or several)
ProofReturned ==
  /\ Req.path \in {"get-proof-by-hash", "get-sth-consistency"}
  /\ Req.method = "GET"
  /\ pc[1] = "done"
  /\ Len(Rpcs) = 1
  /\ ret[1].backend.err = ""

\* C26: the first proof returned decides the response: a node of it with a
\* zero-length hash gives 500 'invalid proof', otherwise the response is 200 with
\* exactly that proof's node hashes in order, and its leaf_index for inclusion
C26_FirstProofDecides ==
  ProofReturned =>
    LET proof == ret[1].backend.proofs[1]
    IN IF \E i \in 1..Len(proof.nodes) : Len(proof.nodes[i]) = 0
         THEN Http.status = 500 /\ Http.reason = "invalid proof"
         ELSE /\ Http.status = 200
              /\ Http.body.nodes = proof.nodes
              /\ Req.path = "get-proof-by-hash" => Http.body.leafIndex = proof.leafIndex

\* two inclusion proofs came back, the second with a missing hash: the first was
\* sent
C26_Witness ==
  /\ ProofReturned
  /\ ret[1].backend.proofs = <<GoodProof, MissingHashProof>>
  /\ Http.status = 200
  /\ Http.body.nodes = GoodProof.nodes

\* C27: get-sth-consistency issues GetConsistencyProof, for first and second as
\* asked, only when both are present, numeric and 0 < first < second; every
\* other request gets 400 and no RPC
C27_ConsistencyRange ==
  Handled("get-sth-consistency") =>
    IF /\ Req.a.kind = "int"
       /\ Req.b.kind = "int"
       /\ 0 < Req.a.val
       /\ Req.a.val < Req.b.val
      THEN /\ Len(Rpcs) = 1
           /\ Rpcs[1].rpc = "GetConsistencyProof"
           /\ Rpcs[1].req = [firstTreeSize |-> Req.a.val, secondTreeSize |-> Req.b.val]
      ELSE /\ Rpcs = <<>>
           /\ pc[1] = "done"
           /\ Http.status = 400

\* first = 0, second = 1 has been refused without an RPC
C27_Witness ==
  /\ Handled("get-sth-consistency")
  /\ Req.a = [kind |-> "int", val |-> 0]
  /\ Req.b = [kind |-> "int", val |-> 1]
  /\ Rpcs = <<>>
  /\ Http.status = 400

\* C28: get-entry-and-proof issues GetEntryAndProof, for leaf_index and tree_size
\* as asked, only when both are present, numeric, 0 <= leaf_index < tree_size and
\* tree_size >= 1; every other request gets 400 and no RPC; an OK answer of the
\* backend without the leaf or without the proof gets 500
C28_EntryAndProof ==
  Handled("get-entry-and-proof") =>
    IF /\ Req.a.kind = "int"
       /\ Req.b.kind = "int"
       /\ 0 <= Req.a.val
       /\ Req.a.val < Req.b.val
       /\ Req.b.val >= 1
      THEN /\ Len(Rpcs) = 1
           /\ Rpcs[1].rpc = "GetEntryAndProof"
           /\ Rpcs[1].req = [leafIndex |-> Req.a.val, treeSize |-> Req.b.val]
           /\ pc[1] = "done" /\ ret[1].backend.err = ""
                /\ (~ret[1].backend.hasLeaf \/ ~ret[1].backend.hasProof) =>
                Http.status = 500
      ELSE /\ Rpcs = <<>>
           /\ pc[1] = "done"
           /\ Http.status = 400

\* the backend answered OK with a leaf and no proof, and the response is 500
C28_Witness ==
  /\ Handled("get-entry-and-proof")
  /\ pc[1] = "done"
  /\ Len(Rpcs) = 1
  /\ ret[1].backend.err = ""
  /\ ret[1].backend.hasLeaf
  /\ ~ret[1].backend.hasProof
  /\ Http.status = 500

\* C29: every RPC a handler issues carries a deadline, which is the time the
\* request arrived plus the configured timeout whatever the time the handler got
\* to the call; the backend's deadline matcher has accepted every call
C29_DeadlineIsArrivalPlusTimeout ==
  /\ \A i \in 1..Len(Rpcs) :
       /\ Rpcs[i].hasDeadline
       /\ Rpcs[i].deadline = loc[1].arrival + rpcDeadline
       /\ Matches(Rpcs[i], loc[1].arrival)
  /\ ret[1].backend.err # "unexpected call"

\* an RPC is out for a request that arrived before the current time
C29_Witness ==
  /\ pc[1] = "answered"
  /\ Len(Rpcs) = 1
  /\ clock > loc[1].arrival
  /\ Rpcs[1].deadline = loc[1].arrival + 500
  /\ ret[1].backend.err = ""

\* C30: no request has more than one backend RPC issued for it; when the RPC
\* returns an error, or QueueLeaves returns a status other than OK, the response
\* is 500
C30_BackendFailureIs500 ==
  /\ Len(Rpcs) <= 1
  /\ pc[1] = "done" /\ Len(Rpcs) = 1
       /\ (\/ ret[1].backend.err # ""
           \/ Rpcs[1].rpc = "QueueLeaves" /\ ret[1].backend.status # "OK") =>
       Http.status = 500

\* QueueLeaves came back with a status other than OK: 500, one RPC, nothing
\* queued
C30_Witness ==
  /\ pc[1] = "done"
  /\ Len(Rpcs) = 1
  /\ Rpcs[1].rpc = "QueueLeaves"
  /\ ret[1].backend.err = ""
  /\ ret[1].backend.status = "ERROR"
  /\ Http.status = 500
  /\ queue = <<>>

\* a submission was accepted by this step and its QueueLeaves RPC goes out
SubmissionAccepted ==
  /\ pc[1] = "arrived"
  /\ pc'[1] = "rpc"
  /\ Len(log'[1]) = 1
  /\ log'[1][1].rpc = "QueueLeaves"

\* C31: the timestamp of the SCT an accepted add-chain / add-pre-chain returns,
\* and of the MerkleTreeLeaf it queues, is the time source's current time in
\* milliseconds
C31_TimestampInMilliseconds ==
  [][SubmissionAccepted =>
       /\ loc'[1].sct.timestamp = clock
       /\ log'[1][1].req.leaves[1].leafData[3] = clock]_vars

\* what the compact tree emits, in order, while leaves i.. are appended to mt
RECURSIVE BatchEmitted(_, _, _)
BatchEmitted(mt, leaves, i) ==
  IF i > Len(leaves) THEN <<>>
  ELSE LET r == AddLeafHash(mt, leaves[i].hash)
       IN r.emitted \o BatchEmitted(r.tree, leaves, i + 1)

\* the tree the batch of invocation p started from
TreeBefore(p) == initMerkleTreeFromStorage(loc[p].currentRoot, nodes).tree

\* the last hash emitted for the node id of em[j]
LastEmittedFor(em, j) ==
  LET same == {k \in 1..Len(em) : em[k].depth = em[j].depth /\ em[k].index = em[j].index}
  IN em[CHOOSE k \in same : \A m \in same : m <= k].hash

\* C32: the nodes a non-empty batch passes to set_merkle_nodes hold, for every
\* (depth, index, hash) the compact tree emitted during the batch, a node of that
\* id with the last hash emitted for it, and for every leaf of the batch the
\* node (0, its sequence number) with its leaf hash
C32_NoNodeUpdateDropped ==
  pc[1] = "sbCommit" =>
    LET em == BatchEmitted(TreeBefore(1), loc[1].leaves, 1)
        ns == txn[1].nodeWrites
    IN /\ \A j \in 1..Len(em) :
            \E n \in ns : /\ n.depth = em[j].depth
                          /\ n.index = em[j].index
                          /\ n.hash = LastEmittedFor(em, j)
       /\ \A i \in 1..Len(loc[1].leaves) :
            \E n \in ns : /\ n.depth = 0
                          /\ n.index = loc[1].leaves[i].seq
                          /\ n.hash = loc[1].leaves[i].hash

\* a batch of two leaves during which the tree emitted an interior node has
\* passed its nodes to storage
C32_Witness ==
  /\ pc[1] = "sbCommit"
  /\ Len(loc[1].leaves) = 2
  /\ Len(BatchEmitted(TreeBefore(1), loc[1].leaves, 1)) >= 1
  /\ Cardinality(txn[1].nodeWrites) = 3

\* C33: every node a batch passes to set_merkle_nodes carries the write revision
\* W of its transaction, and no two of them have the same node id
C33_NodesAtWriteRevisionDistinct ==
  \A p \in Procs :
    \A a \in txn[p].nodeWrites :
      /\ a.rev = txn[p].W
      /\ \A b \in txn[p].nodeWrites :
           a.depth = b.depth /\ a.index = b.index => a = b

\* a batch of two leaves wrote the nodes (0, 1), (0, 2) and (1, 0) at its write
\* revision, the interior node having been emitted during the batch
C33_Witness ==
  /\ pc[1] = "sbCommit"
  /\ Len(loc[1].leaves) = 2
  /\ txn[1].W = 2
  /\ {<<n.depth, n.index, n.rev>> : n \in txn[1].nodeWrites} = {<<0, 0, 2>>, <<0, 1, 2>>, <<1, 0, 2>>}

\* the place of a storage or signer operation in the order of SequenceBatch; -1
\* for what is not one of them (Rollback, the checks made in memory)
OpRank(op) ==
  CASE op = "Begin" -> 0
    [] op = "DequeueLeaves" -> 1
    [] op = "LatestSignedLogRoot" -> 2
    [] op = "GetMerkleNodes" -> 3
    [] op = "UpdateSequencedLeaves" -> 4
    [] op = "SetMerkleNodes" -> 5
    [] op = "Sign" -> 6
    [] op = "StoreSignedLogRoot" -> 7
    [] op = "Commit" -> 8
    [] OTHER -> -1

\* the calls of the first transaction of an invocation: up to its Commit or
\* Rollback
TxCalls(calls) ==
  LET ends == {i \in 1..Len(calls) : calls[i][1] \in {"Commit", "Rollback"}}
  IN IF ends = {} THEN calls
     ELSE SubSeq(calls, 1, CHOOSE i \in ends : \A j \in ends : i <= j)

\* the calls are those of a SequenceBatch
BatchCalls(calls) == Len(calls) >= 2 /\ calls[2][1] = "DequeueLeaves"

InFixedOrder(c) ==
  \A i \in 1..Len(c), j \in 1..Len(c) :
    i < j /\ OpRank(c[i][1]) >= 0 /\ OpRank(c[j][1]) >= 0 =>
      OpRank(c[i][1]) < OpRank(c[j][1])

SucceededBefore(c, op, j) == \E i \in 1..(j - 1) : c[i] = <<op, TRUE>>

StoreAfterWrites(c) ==
  \A j \in 1..Len(c) :
    c[j][1] = "StoreSignedLogRoot" =>
      /\ SucceededBefore(c, "UpdateSequencedLeaves", j)
      /\ SucceededBefore(c, "SetMerkleNodes", j)

\* C34 as stated: in the transaction of a SequenceBatch the operations occur in
\* the fixed order, store_signed_log_root only after update_sequenced_leaves and
\* set_merkle_nodes succeeded, and commit only after store_signed_log_root
\* succeeded
C34_AsStated ==
  \A p \in Procs :
    BatchCalls(log[p]) =>
      LET c == TxCalls(log[p])
      IN /\ InFixedOrder(c)
         /\ StoreAfterWrites(c)
         /\ \A j \in 1..Len(c) :
              c[j][1] = "Commit" => SucceededBefore(c, "StoreSignedLogRoot", j)

\* C34: in the transaction of a SequenceBatch the operations occur in the fixed
\* order dequeue_leaves, latest_signed_log_root, get_merkle_nodes,
\* update_sequenced_leaves, set_merkle_nodes, sign, store_signed_log_root,
\* commit; store_signed_log_root only after update_sequenced_leaves and
\* set_merkle_nodes succeeded; commit only after store_signed_log_root
\* succeeded, or, for an empty batch, right after the two reads with no write
C34_OperationOrder ==
  \A p \in Procs :
    /\ BatchCalls(log[p]) =>
         LET c == TxCalls(log[p])
         IN /\ InFixedOrder(c)
            /\ StoreAfterWrites(c)
            /\ \A j \in 1..Len(c) :
                 c[j][1] = "Commit" =>
                   \/ SucceededBefore(c, "StoreSignedLogRoot", j)
                   \/ SubSeq(c, 1, j - 1) = <<<<"Begin", TRUE>>, <<"DequeueLeaves", TRUE>>,
                                              <<"LatestSignedLogRoot", TRUE>>>>
    /\ pc[p] = "sbEmpty" => loc[p].leaves = <<>>
    /\ pc[p] \in {"sbHydrate", "sbWrite", "sbCommit"} => loc[p].leaves # <<>>
    /\ pc[p] = "sbCommit" =>
         SucceededBefore(log[p], "StoreSignedLogRoot", Len(log[p]) + 1)

\* a batch on a non-empty tree has made every call, each succeeding
C34_Witness ==
  /\ pc[1] = "done"
  /\ log[1] = <<<<"Begin", TRUE>>, <<"DequeueLeaves", TRUE>>, <<"LatestSignedLogRoot", TRUE>>,
                <<"GetMerkleNodes", TRUE>>, <<"UpdateSequencedLeaves", TRUE>>,
                <<"SetMerkleNodes", TRUE>>, <<"Sign", TRUE>>,
                <<"StoreSignedLogRoot", TRUE>>, <<"Commit", TRUE>>>>

\* C35: the panic of SequenceBatch is never reached: whenever sequenceLeaves
\* returns without error for the batch about to be integrated it returns as many
\* sequence numbers as there are leaves, so no invocation stops with its
\* transaction open
C35_PanicUnreachable ==
  \A p \in Procs :
    /\ pc[p] # "panic"
    /\ pc[p] = "sbHydrate" =>
         LET s == sequenceLeaves(TreeBefore(p), loc[p].leaves)
         IN ~s.err => Len(s.sequenceNumbers) = Len(loc[p].leaves)
    /\ pc[p] \in {"idle", "done"} => ~txn[p].open

\* sequenceLeaves has returned for a batch of two leaves and the writes are next
C35_Witness ==
  /\ pc[1] = "sbWrite"
  /\ Len(loc[1].leaves) = 2
  /\ \A i \in 1..2 : loc[1].leaves[i].seq >= 0
  /\ txn[1].open

\* C36: every STH a transaction of the sequencer stores, in SequenceBatch or in
\* SignRoot, has tree_revision equal to the write revision the transaction was
\* given at begin()
C36_SthAtWriteRevision ==
  \A p \in Procs :
    \A s \in txn[p].sthWrites : s.rev = txn[p].W

\* C37: whatever invocations ran, finished, failed or lost a revision conflict,
\* every leaf ever queued is either pending in the queue, once, with no sequence
\* number stored for it, or integrated: exactly one sequence number is stored for
\* it and it is below the tree size of the latest root
C37_LeafConservation ==
  /\ \A id \in 1..queued :
       \/ /\ Cardinality({i \in 1..Len(queue) : queue[i] = id}) = 1
          /\ \A r \in sequenced : r.leaf # id
       \/ /\ id \notin Range(queue)
          /\ Cardinality({r \in sequenced : r.leaf = id}) = 1
  /\ \A r \in sequenced :
       /\ r.leaf \in 1..queued
       /\ 0 <= r.seq
       /\ r.seq < LatestSize
  /\ Range(queue) \subseteq 1..queued

\* of three leaves queued one is integrated and two are pending, after an
\* invocation that lost the revision check
C37_Witness ==
  /\ queued = 3
  /\ Cardinality(sequenced) = 1
  /\ Len(queue) = 2
  /\ \E p \in Procs : Failed(p) /\ ret[p].err = "RevisionCheck"

\* the compact tree hydrated from the stored nodes at the latest stored root
HydratedLatest(S, N) == initMerkleTreeFromStorage(LatestSignedLogRoot(S), N)

\* invocation p commits a new root in this step
CommitsRoot(p) ==
  /\ pc[p] \in {"sbCommit", "srCommit"}
  /\ sths' # sths

\* C38: after any committed SequenceBatch and SignRoot operations, hydrating the
\* compact tree from the latest root succeeds: each spine node, one per set bit
\* of tree_size, is found once at a revision not above the root's, and the tree
\* has the root's size and root hash; and at the commit of a root the tree
\* hydrated from it is the in-memory tree that produced it, size and spine
C38_HydrateRoundTrip ==
  /\ [](sths # {} =>
          LET cur == LatestSignedLogRoot(sths)
              h == HydratedLatest(sths, nodes)
          IN /\ ~h.err
             /\ \A l \in 0..(NumLevels(cur.size) - 1) :
                  Bit(cur.size, l) = 1 =>
                    /\ Cardinality(GetMerkleNodes(nodes, cur.rev, l, Shr(cur.size, l) - 1)) = 1
                    /\ \A n \in GetMerkleNodes(nodes, cur.rev, l, Shr(cur.size, l) - 1) :
                         n.rev <= cur.rev /\ n.hash = h.tree.spine[l + 1]
             /\ TreeSize(h.tree) = cur.size
             /\ CurrentRoot(h.tree) = cur.hash)
  /\ [][\A p \in Procs : CommitsRoot(p) =>
          /\ ~HydratedLatest(sths', nodes').err
          /\ HydratedLatest(sths', nodes').tree = loc[p].merkleTree]_vars

\* a tree of three leaves, its spine the nodes (1, 0) and (0, 2), built in more
\* than one batch and re-signed since
C38_Witness ==
  /\ pc[1] = "done"
  /\ LatestSize = 3
  /\ Cardinality({s.rev : s \in {t \in sths : t.size > 0}}) >= 3
  /\ ~HydratedLatest(sths, nodes).err
  /\ Len(HydratedLatest(sths, nodes).tree.spine) = 2

\* the SignRoot that the empty-batch branch of invocation p started commits its
\* new root in this step
ResignCommits(p) ==
  /\ pc[p] = "srCommit"
  /\ loc[p].entry = "SequenceBatch"
  /\ sths' # sths

\* C39 as stated: whenever the SignRoot started by the empty-batch branch commits
\* a new root, the root that was the latest just before that commit satisfied
\* expiryFunc, whatever other invocations committed in between
C39_AsStated ==
  [][\A p \in Procs : ResignCommits(p) =>
       Expired(loc[p].expiryFunc, LatestSignedLogRoot(sths), clock)]_vars

\* C39: whenever the SignRoot started by the empty-batch branch commits a new
\* root, the root the first transaction had read satisfied expiryFunc, when the
\* branch was taken and still at the commit, and the root re-signed is the latest
\* one; that latest root is itself expired when it is the root the first
\* transaction read, which it is unless another invocation committed in between
C39_ResignAfterExpiry ==
  [][\A p \in Procs :
       /\ pc[p] = "sbEmpty" /\ pc'[p] = "srBegin" =>
            Expired(loc[p].expiryFunc, loc[p].currentRoot, clock)
       /\ ResignCommits(p) =>
            /\ Expired(loc[p].expiryFunc, loc[p].batchRoot, clock)
            /\ loc[p].currentRoot = LatestSignedLogRoot(sths)
            /\ loc[p].batchRoot = LatestSignedLogRoot(sths) =>
                 Expired(loc[p].expiryFunc, LatestSignedLogRoot(sths), clock)]_vars

\* the empty-batch branch decided on an aged root, another invocation committed a
\* root since, and the SignRoot is about to commit a re-signing of that fresh root
C39_Witness ==
  /\ pc[1] = "srCommit"
  /\ loc[1].entry = "SequenceBatch"
  /\ loc[1].expiryFunc = "aged"
  /\ loc[1].batchRoot # LatestSignedLogRoot(sths)
  /\ loc[1].currentRoot = LatestSignedLogRoot(sths)
  /\ ~Expired(loc[1].expiryFunc, LatestSignedLogRoot(sths), clock)

\* C40: liveness. With one sequencer whose SequenceBatch is invoked again and
\* again with a limit of at least 1, a first-in-first-out dequeue, and no storage
\* or signer call failing from some moment on, every leaf in the pending queue is
\* eventually given a sequence number and covered by a committed root whose
\* tree size exceeds that number
Pending(l) == \E i \in 1..Len(queue) : queue[i] = l

Integrated(l) ==
  \E r \in sequenced : r.leaf = l /\ r.seq >= 0 /\ r.seq < LatestSignedLogRoot(sths).size

C40_PendingLeavesIntegrated == \A l \in 1..MaxLeaves : Pending(l) ~> Integrated(l)

\* every leaf the log was handed is integrated, the last batch after the moment
\* from which nothing fails, and calls had failed before
C40_Witness ==
  /\ queued >= 2
  /\ \A l \in 1..queued : Integrated(l)
  /\ queue = <<>>
  /\ clock = MaxClock
  /\ pc[1] = "done"
  /\ ret[1].count >= 1

====
